---------------------------- MODULE Spec2Model ----------------------------
(***************************************************************************)
(* A model of the bill-splitting core of tldrbot                           *)
(* (bot/services/bill_splitter.py): calculate_split,                       *)
(* parse_payment_context_with_llm, extract_receipt_data_from_image,        *)
(* format_split_results and handle_bill_split_request; of the quota test   *)
(* of UsageService.within_quota (bot/services/usage_service.py,            *)
(* bot/utils/quota_manager.py, bot/utils/user_management.py); and of the   *)
(* Stripe webhook (bot/handlers/webhook_handlers.py,                       *)
(* bot/services/stripe_service.py); of the daily counter the               *)
(* quota-checked handlers keep in Redis                                    *)
(* (QuotaManager.increment_daily_usage); of the LLM job queue with its     *)
(* worker (bot/main.py, bot/services/redis_queue.py) and the commands that *)
(* set the strategy of the shared AIService; and of the bill-split         *)
(* conversation of bot/handlers/command_handlers.py.                       *)
(*                                                                         *)
(* Money is held in cents.  The Python code computes with binary floats;   *)
(* the model computes with exact rationals [n, d] and makes round(x, 2)    *)
(* choose either neighbour when x lies exactly half way between two cents, *)
(* because the float that the code rounds lies a hair above or below it.   *)
(***************************************************************************)
EXTENDS Integers, Sequences, FiniteSets, TLC

VARIABLES
    \* ---- calculate_split: arguments
    assignments,                 \* Dict[str, List[ReceiptItem]]
    shared_items,                \* List[ReceiptItem]
    arg_participants,            \* Set[str], as passed by the caller
    total_amount,                \* float (cents)
    service_charge,              \* Optional[float]: <<>> is None, <<x>> is x
    tax_amount,                  \* Optional[float]
    \* ---- calculate_split: locals
    pcCalc,
    participants,                \* the local name, rebound at line 372
    person_subtotals,
    total_items_cost,
    shared_item_cost_per_person,
    service_charge_per_person,
    person_totals_after_service,
    tax_per_person,
    person_totals_after_tax,
    final_split,                 \* List[BillSplitResult] as [person, owes]
    total_warning,               \* the warning of lines 485-490 was logged
    float_boundary,              \* how a float comparison on the exact boundary falls
    calc_result,                 \* "running", "ok" or the returned error string
    \* ---- parse_payment_context_with_llm: arguments and the provider
    receipt_items,               \* List[ReceiptItem], the canonical items
    llm_reply,                   \* what the completion API does when called
    \* ---- parse_payment_context_with_llm: locals
    pcParse,
    llm_response_str,            \* what ai_service.get_response returned
    parsing_result,              \* the validated ContextParsingResult
    person_idx,                  \* position in parsing_result.assignments.items()
    name_idx,                    \* position in the current list of names
    assigned_items_for_person,
    final_assignments,           \* Dict[str, List[ReceiptItem]], insertion-ordered
    final_shared_items,
    processed_item_names,
    final_participants,
    parse_result,                \* "running", "ok" or the returned error string
    parse_raised,                \* an exception left the function
    \* ---- extract_receipt_data_from_image
    pcExtract,
    invocations,                 \* calls of the function so far
    mistral_api_key,             \* MISTRAL_API_KEY is set
    tmp_files,                   \* temporary image files present on disk
    recognition,                 \* what the recognition calls did in this call
    ocr_text,                    \* res.pages[0].markdown
    structuring_calls,           \* completion calls made in this call
    structuring_response,        \* llm_response
    extract_result,              \* "running", "None" or "ReceiptData"
    receipt_data,                \* the validated document, when returned
    extract_raised,              \* an exception left the function
    \* ---- handle_bill_split_request
    pcBill,
    stage_log,                   \* the stages called so far, in call order
    replies,                     \* the replies sent so far, in order
    bill_receipt,                \* receipt_data: <<>> is None
    bill_parse_result,           \* parse_result: a string or the three buckets
    final_message,               \* what format_split_results returned
    \* ---- the users table, Redis and UsageService.within_quota
    user,                        \* the user's row: <<>> when there is none
    now_utc,
    db_error,                    \* the database raises SQLAlchemyError
    redis_daily,                 \* usage:daily:<id>, <<>> when the key is absent
    redis_monthly,               \* usage:monthly:<id>
    redis_groups,                \* groups:<id>
    redis_failing,               \* the Redis commands that raise
    chat_id,
    pcQuota,
    daily_ok,
    monthly_ok,
    group_ok,
    quota_result,                \* <<>> until within_quota has returned
    \* ---- handle_stripe_webhook
    request,                     \* the HTTP request
    stripe_env,                  \* the secret, the Stripe API, the database
    user_before,                 \* the user's row when the request arrived
    pcHook,
    hook_verified,               \* what verify_webhook_signature returned
    handlers_run,                \* the StripeService handlers called, in order
    update_calls,                \* calls of update_premium_status
    handler_success,             \* success
    notification,                \* the notification sent to the user
    hook_response,               \* the status returned, 0 until then
    \* ---- the quota-checked handlers and the daily counter in Redis
    seconds_until_midnight,      \* whole seconds to the next midnight of Singapore
    daily_count,                 \* the value of usage:daily:<id>, <<>> when absent
    daily_ttl,                   \* the seconds the key has left, <<>> when it has no expiry
    pcUsage,
    handler,                     \* the handler of the update being handled
    current,                     \* the reply to GET in increment_daily_usage
    accepted,                    \* requests let through since the counter was last reset
    uncounted,                   \* one of them left the counter as it was
    \* ---- summarize, switch_model and the worker of the LLM queue
    ai_strategy,                 \* command_handlers.ai_service._strategy
    user_selected_model,         \* Dict[int, str], "deepseek" for a missing key
    user_api_keys,               \* the users who have set a key of their own
    llm_job_queue,               \* the Redis list llm_job_queue
    enqueued,                    \* jobs pushed so far
    pcWorker,
    job,                         \* the job the worker holds: <<>> is none
    response,                    \* the strategy that answered the job's prompt
    answers,                     \* what the worker has sent for its jobs, in order
    \* ---- the bill-split conversation
    conversations,               \* the state of the ConversationHandler for each (user, chat)
    user_data,                   \* context.user_data['bill_split'] of each user, <<>> when absent
    conv_reply                   \* the last answer of a handler of the conversation

calcVars == <<assignments, shared_items, arg_participants, total_amount,
              service_charge, tax_amount, pcCalc, participants,
              person_subtotals, total_items_cost, shared_item_cost_per_person,
              service_charge_per_person, person_totals_after_service,
              tax_per_person, person_totals_after_tax, final_split,
              total_warning, float_boundary, calc_result>>

calcArgs == <<assignments, shared_items, arg_participants, total_amount,
              service_charge, tax_amount>>

parseVars == <<receipt_items, llm_reply, llm_response_str, parsing_result,
               pcParse, person_idx, name_idx, assigned_items_for_person,
               final_assignments, final_shared_items, processed_item_names,
               final_participants, parse_result, parse_raised>>

extractVars == <<pcExtract, invocations, mistral_api_key, tmp_files,
                 recognition, ocr_text, structuring_calls, structuring_response,
                 extract_result, receipt_data, extract_raised>>

billVars == <<pcBill, stage_log, replies, bill_receipt, bill_parse_result,
              final_message>>

quotaVars == <<now_utc, db_error, redis_daily, redis_monthly, redis_groups,
               redis_failing, chat_id, pcQuota, daily_ok, monthly_ok, group_ok,
               quota_result>>

hookVars == <<request, stripe_env, user_before, pcHook, hook_verified,
              handlers_run, update_calls, handler_success, notification,
              hook_response>>

usageVars == <<seconds_until_midnight, daily_count, daily_ttl, pcUsage, handler,
               current, accepted, uncounted>>

workerVars == <<ai_strategy, user_selected_model, user_api_keys, llm_job_queue,
                enqueued, pcWorker, job, response, answers>>

convVars == <<conversations, user_data, conv_reply>>

botVars == <<usageVars, workerVars, convVars>>

notCalcVars == <<parseVars, extractVars, billVars, user, quotaVars, hookVars, botVars>>
notParseVars == <<calcVars, extractVars, billVars, user, quotaVars, hookVars, botVars>>
notExtractVars == <<calcVars, parseVars, billVars, user, quotaVars, hookVars, botVars>>
notBillVars == <<calcVars, parseVars, extractVars, user, quotaVars, hookVars, botVars>>
notQuotaVars == <<calcVars, parseVars, extractVars, billVars, hookVars, botVars>>
notHookVars == <<calcVars, parseVars, extractVars, billVars, quotaVars, botVars>>

coreVars == <<calcVars, parseVars, extractVars, billVars, user, quotaVars, hookVars>>
notUsageVars == <<coreVars, workerVars, convVars>>
notWorkerVars == <<coreVars, usageVars, convVars>>
notConvVars == <<coreVars, usageVars, workerVars>>

vars == <<coreVars, botVars>>

---------------------------------------------------------------------------
(* Bounds of the model *)

CalcItems == 3      \* receipt lines offered to calculate_split
CalcPeople == 2     \* people that can take part in a split
ParseItems == 2     \* lines of the receipt given to the context parser
ParseClaims == 3    \* item names in one answer of the language model
MaxInvocations == 2 \* calls of extract_receipt_data_from_image in a run
DayLength == 3      \* seconds from one midnight to the next
MaxAccepted == 6    \* requests let through between two resets of the counter
MaxJobs == 2        \* jobs pushed on the LLM queue in a run

---------------------------------------------------------------------------
(* Exact rational arithmetic standing for Python's float arithmetic *)

Abs(i) == IF i < 0 THEN -i ELSE i

RECURSIVE GCD(_, _)
GCD(a, b) == IF b = 0 THEN a ELSE GCD(b, a % b)

Rat(num, den) ==
    LET s == IF den < 0 THEN -1 ELSE 1
        g == GCD(Abs(num), Abs(den))
    IN  [n |-> (s * num) \div g, d |-> (s * den) \div g]

RInt(i) == [n |-> i, d |-> 1]
RAdd(x, y) == Rat(x.n * y.d + y.n * x.d, x.d * y.d)
RSub(x, y) == Rat(x.n * y.d - y.n * x.d, x.d * y.d)
RMul(x, y) == Rat(x.n * y.n, x.d * y.d)
RDiv(x, y) == Rat(x.n * y.d, x.d * y.n)
RAbs(x) == [n |-> Abs(x.n), d |-> x.d]
RGt(x, y) == x.n * y.d > y.n * x.d
RLeq(x, y) == ~RGt(x, y)

Optional(S) == {<<>>} \cup {<<x>> : x \in S}

\* `x or 0.0`
OrZero(opt) == IF opt = <<>> THEN 0 ELSE opt[1]

\* x lies exactly half way between two whole cents
IsTie(x) == LET q == x.n \div x.d IN 2 * (x.n - q * x.d) = x.d

\* round(x, 2) on an amount held in cents: the nearest whole cent; on an exact
\* half the float's representation error decides, so either neighbour.
RoundCents(x, tieUp) ==
    LET q == x.n \div x.d
        r == x.n - q * x.d
    IN  IF 2 * r < x.d THEN q
        ELSE IF 2 * r > x.d THEN q + 1
        ELSE IF tieUp THEN q + 1 ELSE q

---------------------------------------------------------------------------
(* calculate_split: the inputs the model draws *)

PersonOrder == <<"Alice", "Bob", "Carol", "Dave">>
CalcPersons == {PersonOrder[i] : i \in 1..CalcPeople}

\* str comparison of the names used, as list.sort(key=lambda x: x.person) sees it
PersonRank(p) == CHOOSE i \in 1..Len(PersonOrder) : PersonOrder[i] = p

ReceiptNames == <<"Burger", "Salad", "Drinks", "Water", "Bread">>

\* total_price of each receipt line, in cents: the receipt of the worked
\* example, and a receipt of free lines with one odd-priced line.
PriceLists == {<<1000, 800, 400, 250, 300>>, <<0, 0, 125, 0, 75>>}

CalcReceipt(prices) ==
    [i \in 1..CalcItems |-> [name |-> ReceiptNames[i], total_price |-> prices[i]]]

\* The items of a receipt that an allocation gives to bucket b, in receipt order
RECURSIVE Bucket(_, _, _, _)
Bucket(receipt, alloc, b, i) ==
    IF i > Len(receipt) THEN <<>>
    ELSE (IF alloc[i] = b THEN <<receipt[i]>> ELSE <<>>)
         \o Bucket(receipt, alloc, b, i + 1)

RECURSIVE SumPrices(_)
SumPrices(items) ==
    IF items = <<>> THEN 0 ELSE items[1].total_price + SumPrices(Tail(items))

RECURSIVE SumOver(_, _)
SumOver(f, S) ==
    IF S = {} THEN 0
    ELSE LET x == CHOOSE y \in S : TRUE IN f[x] + SumOver(f, S \ {x})

\* sum of total_price over all assigned items
AssignedTotal(a) == SumOver([p \in DOMAIN a |-> SumPrices(a[p])], DOMAIN a)

---------------------------------------------------------------------------
(* calculate_split: the pieces of the function, in source order *)

ErrSharedNoParticipants ==
    "Error: Shared items exist, but no participants were identified to split amongst."
ErrCannotDetermine == "Error: Items assigned, but could not determine participants."
ErrNoParticipants == "Error: No participants found to split the bill."

\* the inference of line 372 left out
InferParticipants_Never(parts, a) == parts

\* `participants |= assignments.keys()` written for the inference
InferParticipants_AddsKeys(parts, a) == parts \cup DOMAIN a

\* `participants = set(assignments.keys())` when none were given but
\* assignments exist (lines 371-372)
InferParticipants(parts, a) ==
    IF parts = {} /\ DOMAIN a # {} THEN DOMAIN a ELSE parts

\* The three early returns (lines 369-378): the error string, or "" to go on
PreconditionError(parts, a, s) ==
    IF parts = {} /\ s # <<>> THEN ErrSharedNoParticipants
    ELSE IF parts = {} /\ DOMAIN a # {} /\ InferParticipants(parts, a) = {}
         THEN ErrCannotDetermine
    ELSE IF InferParticipants(parts, a) = {} THEN ErrNoParticipants
    ELSE ""

\* person_subtotals after the loop over assignments (lines 381-393): a key of
\* assignments that is no participant gets an entry of its own
DirectSubtotals(parts, a) ==
    [p \in parts \cup DOMAIN a |->
        IF p \in DOMAIN a THEN RInt(SumPrices(a[p])) ELSE RInt(0)]

\* `//` written for `/`
SharedCostPerPerson_FloorDivision(s, n) == RInt(SumPrices(s) \div n)

\* total_shared_cost / num_people (line 400)
SharedCostPerPerson(s, n) == Rat(SumPrices(s), n)

\* the guard of line 422
ServiceApplies(charge, base) == charge > 0 /\ base > 0

\* person_share_ratio * total_service_charge (lines 426-427)
ServiceShare(subtotal, base, charge, n) ==
    LET person_share_ratio == IF base > 0 THEN RDiv(subtotal, RInt(base))
                              ELSE Rat(1, n)
    IN  RMul(person_share_ratio, RInt(charge))

\* tax proportioned on the items alone
TaxDistributionBase_ItemsOnly(base, charge) == base

\* tax_distribution_base (line 443)
TaxDistributionBase(base, charge) == base + charge

\* the guard of line 448
TaxApplies(tax, taxbase) == tax > 0 /\ taxbase > 0

\* tax_share_ratio * total_tax (lines 454-455)
TaxShare(pre_tax, taxbase, tax, n) ==
    LET tax_share_ratio == IF taxbase > 0 THEN RDiv(pre_tax, RInt(taxbase))
                           ELSE Rat(1, n)
    IN  RMul(tax_share_ratio, RInt(tax))

\* the orders in which `for person in participants` can visit a set
IterationOrders(S) ==
    {o \in [1..Cardinality(S) -> S] : \A i, j \in 1..Cardinality(S) : i # j => o[i] # o[j]}

\* tolerance = 0.01 * num_people, in cents (line 484)
Tolerance(n) == n

\* The running sums of lines 476 and 539 are binary floats.  Adding the
\* same amounts in another order can end one unit in the last place apart,
\* except that the first two addends commute: what is left of an order once
\* its first two people are forgotten names the float the sum ends on.
SumClass(order) == IF Len(order) <= 2 THEN <<>> ELSE SubSeq(order, 3, Len(order))

\* the ways the float comparison can fall, per float sum, when the exact
\* deviation equals the tolerance
FloatBoundaries(S) == [{SumClass(o) : o \in IterationOrders(S)} -> BOOLEAN]

\* the test of lines 485 and 549: abs(sum - total) > tolerance on floats.
\* Away from the boundary the float test is the exact test.
ExceedsTolerance(grand_total, total, n, boundary) ==
    \/ Abs(grand_total - total) > Tolerance(n)
    \/ Abs(grand_total - total) = Tolerance(n) /\ boundary

\* lines 485-497: a mismatch is logged and the list is returned all the same
ReturnAfterCheck_FailOnMismatch(mismatch) ==
    IF mismatch THEN "Error: Calculated total does not match the receipt total."
    ELSE "ok"

ReturnAfterCheck(mismatch) == "ok"

\* final_split.sort(key=lambda x: x.person) (line 495): a stable insertion sort
RECURSIVE InsertByPerson(_, _)
InsertByPerson(r, sorted) ==
    IF sorted = <<>> THEN <<r>>
    ELSE IF PersonRank(r.person) < PersonRank(sorted[1].person)
         THEN <<r>> \o sorted
    ELSE <<sorted[1]>> \o InsertByPerson(r, Tail(sorted))

SortByPerson_Unsorted(rs) == rs

RECURSIVE SortByPerson(_)
SortByPerson(rs) ==
    IF rs = <<>> THEN <<>>
    ELSE InsertByPerson(rs[Len(rs)], SortByPerson(SubSeq(rs, 1, Len(rs) - 1)))

RECURSIVE SumOwes(_)
SumOwes(rs) == IF rs = <<>> THEN 0 ELSE rs[1].owes + SumOwes(Tail(rs))

---------------------------------------------------------------------------
(* calculate_split: the state machine *)

\* absent, a discount misread as a charge, zero, and a charge
ServiceChoices == Optional({-125, 0, 100})
TaxChoices == Optional({-200, 200})
\* what the receipt's stated total adds to items + service charge + tax
TotalSkews == {0, 500}

NoFn == <<>>

CalcInit ==
    \E prices \in PriceLists,
       alloc \in [1..CalcItems -> CalcPersons \cup {"shared", "none"}],
       parts \in SUBSET CalcPersons,
       sc \in ServiceChoices, tx \in TaxChoices, skew \in TotalSkews :
        LET receipt == CalcReceipt(prices)
            keys == {p \in CalcPersons : \E i \in 1..CalcItems : alloc[i] = p}
            a == [p \in keys |-> Bucket(receipt, alloc, p, 1)]
            s == Bucket(receipt, alloc, "shared", 1)
        IN  /\ assignments = a
            /\ shared_items = s
            /\ arg_participants = parts
            /\ service_charge = sc
            /\ tax_amount = tx
            /\ total_amount = AssignedTotal(a) + SumPrices(s)
                              + OrZero(sc) + OrZero(tx) + skew
            /\ pcCalc = "start"
            /\ participants = parts
            /\ person_subtotals = NoFn
            /\ total_items_cost = 0
            /\ shared_item_cost_per_person = RInt(0)
            /\ service_charge_per_person = NoFn
            /\ person_totals_after_service = NoFn
            /\ tax_per_person = NoFn
            /\ person_totals_after_tax = NoFn
            /\ final_split = <<>>
            /\ total_warning = FALSE
            /\ float_boundary = NoFn
            /\ calc_result = "running"

\* lines 369-378
CalcPreconditions ==
    /\ pcCalc = "start"
    /\ LET err == PreconditionError(arg_participants, assignments, shared_items)
       IN  IF err # ""
           THEN /\ calc_result' = err
                /\ pcCalc' = "done"
                /\ UNCHANGED participants
           ELSE /\ participants' = InferParticipants(arg_participants, assignments)
                /\ pcCalc' = "direct"
                /\ UNCHANGED calc_result
    /\ UNCHANGED <<calcArgs, notCalcVars, person_subtotals, total_items_cost,
                   shared_item_cost_per_person, service_charge_per_person,
                   person_totals_after_service, tax_per_person,
                   person_totals_after_tax, final_split, total_warning, float_boundary>>

\* lines 380-393
CalcDirectCosts ==
    /\ pcCalc = "direct"
    /\ person_subtotals' = DirectSubtotals(participants, assignments)
    /\ total_items_cost' = AssignedTotal(assignments)
    /\ pcCalc' = "shared"
    /\ UNCHANGED <<calcArgs, notCalcVars, participants,
                   shared_item_cost_per_person, service_charge_per_person,
                   person_totals_after_service, tax_per_person,
                   person_totals_after_tax, final_split, total_warning, float_boundary, calc_result>>

\* lines 395-410
CalcSharedCosts ==
    /\ pcCalc = "shared"
    /\ LET num_people == Cardinality(participants)
           share == SharedCostPerPerson(shared_items, num_people)
       IN  /\ total_items_cost' = total_items_cost + SumPrices(shared_items)
           /\ shared_item_cost_per_person' = share
           /\ person_subtotals' =
                [p \in DOMAIN person_subtotals |->
                    IF p \in participants THEN RAdd(person_subtotals[p], share)
                    ELSE person_subtotals[p]]
    /\ pcCalc' = "service"
    /\ UNCHANGED <<calcArgs, notCalcVars, participants,
                   service_charge_per_person, person_totals_after_service,
                   tax_per_person, person_totals_after_tax, final_split,
                   total_warning, float_boundary, calc_result>>

\* lines 412-438
CalcServiceCharge ==
    /\ pcCalc = "service"
    /\ LET distribution_base == total_items_cost
           total_service_charge == OrZero(service_charge)
           num_people == Cardinality(participants)
       IN  IF ServiceApplies(total_service_charge, distribution_base)
           THEN /\ service_charge_per_person' =
                     [p \in participants |->
                         ServiceShare(person_subtotals[p], distribution_base,
                                      total_service_charge, num_people)]
                /\ person_totals_after_service' =
                     [p \in participants |->
                         RAdd(person_subtotals[p],
                              ServiceShare(person_subtotals[p], distribution_base,
                                           total_service_charge, num_people))]
           ELSE /\ service_charge_per_person' = [p \in participants |-> RInt(0)]
                /\ person_totals_after_service' = person_subtotals
    /\ pcCalc' = "tax"
    /\ UNCHANGED <<calcArgs, notCalcVars, participants, person_subtotals,
                   total_items_cost, shared_item_cost_per_person, tax_per_person,
                   person_totals_after_tax, final_split, total_warning, float_boundary, calc_result>>

\* lines 441-466
CalcTax ==
    /\ pcCalc = "tax"
    /\ LET distribution_base == total_items_cost
           total_service_charge == OrZero(service_charge)
           tax_distribution_base ==
               TaxDistributionBase(distribution_base, total_service_charge)
           total_tax == OrZero(tax_amount)
           num_people == Cardinality(participants)
       IN  IF TaxApplies(total_tax, tax_distribution_base)
           THEN /\ tax_per_person' =
                     [p \in participants |->
                         TaxShare(person_totals_after_service[p],
                                  tax_distribution_base, total_tax, num_people)]
                /\ person_totals_after_tax' =
                     [p \in participants |->
                         RAdd(person_totals_after_service[p],
                              TaxShare(person_totals_after_service[p],
                                       tax_distribution_base, total_tax, num_people))]
           ELSE /\ tax_per_person' = [p \in participants |-> RInt(0)]
                /\ person_totals_after_tax' = person_totals_after_service
    /\ pcCalc' = "final"
    /\ UNCHANGED <<calcArgs, notCalcVars, participants, person_subtotals,
                   total_items_cost, shared_item_cost_per_person,
                   service_charge_per_person, person_totals_after_service,
                   final_split, total_warning, float_boundary, calc_result>>

\* lines 469-497: round, compare with the receipt total, sort, return
CalcFinalize ==
    /\ pcCalc = "final"
    /\ \E order \in IterationOrders(participants),
          tieUp \in [{p \in participants : IsTie(person_totals_after_tax[p])} -> BOOLEAN],
          boundary \in FloatBoundaries(participants) :
        LET unsorted == [i \in 1..Len(order) |->
                            [person |-> order[i],
                             owes |-> RoundCents(person_totals_after_tax[order[i]],
                                                 order[i] \in DOMAIN tieUp
                                                 /\ tieUp[order[i]])]]
            on_boundary == Abs(SumOwes(unsorted) - total_amount)
                               = Tolerance(Cardinality(participants))
            mismatch == ExceedsTolerance(SumOwes(unsorted), total_amount,
                                         Cardinality(participants),
                                         boundary[SumClass(order)])
        IN  /\ on_boundary \/ \A c \in DOMAIN boundary : ~boundary[c]
            /\ float_boundary' = boundary
            /\ final_split' = SortByPerson(unsorted)
            /\ total_warning' = mismatch
            /\ calc_result' = ReturnAfterCheck(mismatch)
    /\ pcCalc' = "done"
    /\ UNCHANGED <<calcArgs, notCalcVars, participants, person_subtotals,
                   total_items_cost, shared_item_cost_per_person,
                   service_charge_per_person, person_totals_after_service,
                   tax_per_person, person_totals_after_tax>>

CalcIdle ==
    /\ assignments = NoFn
    /\ shared_items = <<>>
    /\ arg_participants = {}
    /\ service_charge = <<>>
    /\ tax_amount = <<>>
    /\ total_amount = 0
    /\ pcCalc = "idle"
    /\ participants = {}
    /\ person_subtotals = NoFn
    /\ total_items_cost = 0
    /\ shared_item_cost_per_person = RInt(0)
    /\ service_charge_per_person = NoFn
    /\ person_totals_after_service = NoFn
    /\ tax_per_person = NoFn
    /\ person_totals_after_tax = NoFn
    /\ final_split = <<>>
    /\ total_warning = FALSE
    /\ float_boundary = NoFn
    /\ calc_result = "running"

CalcNext ==
    \/ CalcPreconditions
    \/ CalcDirectCosts
    \/ CalcSharedCosts
    \/ CalcServiceCharge
    \/ CalcTax
    \/ CalcFinalize

---------------------------------------------------------------------------
(* parse_payment_context_with_llm: the inputs the model draws *)

ParsePersons == {"Alice", "Bob"}

\* str.lower() on the item names the model uses
Lower(name) ==
    CASE name = "Burger" -> "burger"
      [] name = "BURGER" -> "burger"
      [] name = "burger" -> "burger"
      [] name = "Salad"  -> "salad"
      [] name = "salad"  -> "salad"
      [] name = "Drinks" -> "drinks"
      [] name = "Water"  -> "water"
      [] name = "Burgr"  -> "burgr"
      [] OTHER -> name

\* The names a receipt can carry line by line: all different, or the first
\* line printed twice.
ReceiptNameLists == {<<"Burger", "Salad", "Drinks", "Water">>,
                     <<"Burger", "Burger", "Drinks", "Water">>}
ReceiptPrices == <<1000, 800, 400, 250>>

ParseReceipt(names) ==
    [i \in 1..ParseItems |->
        [id |-> i, name |-> names[i], total_price |-> ReceiptPrices[i]]]

\* The item names the language model may write: two other letter cases of a
\* receipt name, a receipt name as printed, and a misspelling.
ClaimNames == {"BURGER", "burger", "Salad", "Burgr"}

SeqsUpTo(S, k) == UNION {[1..m -> S] : m \in 0..k}

RECURSIVE NamesIn(_)
NamesIn(entries) ==
    IF entries = <<>> THEN 0
    ELSE Len(entries[1].names) + NamesIn(Tail(entries))

\* One entry of "assignments": a person and at most k item names
Entries(persons, k) == [person : persons, names : SeqsUpTo(ClaimNames, k)]

\* "assignments" of the model's JSON: an object, so its keys are distinct and
\* keep their order; at most k names in all
AssignmentObjects(k) ==
    {<<>>}
    \cup {<<e>> : e \in Entries(ParsePersons, k)}
    \cup UNION {{<<e1, e2>> :
                   e2 \in Entries(ParsePersons \ {e1.person}, k - Len(e1.names))} :
                e1 \in Entries(ParsePersons, k)}

ParticipantLists == {<<>>, <<"Alice">>}

\* A parsed JSON document: each key present (<<v>>) or absent (<<>>)
Doc(a, s, p) == [assignments |-> a, shared_items |-> s, participants |-> p]
EmptyDoc == Doc(<<>>, <<>>, <<>>)

\* What the completion API can answer.  kind: "none" (content None), "empty"
\* (""), "text" (prose, no JSON), "json" (a JSON document inside `fence`).
Response(kind, fence, doc) == [kind |-> kind, fence |-> fence, doc |-> doc]

\* The documents that satisfy the schema, with at most ParseClaims names
FullDocs ==
    UNION {{Doc(<<a>>, <<s>>, <<p>>) :
              s \in SeqsUpTo(ClaimNames, ParseClaims - NamesIn(a)),
              p \in ParticipantLists} :
           a \in AssignmentObjects(ParseClaims)}

WellFormedResponses == {Response("json", "none", d) : d \in FullDocs}

SmallDoc == Doc(<<  <<[person |-> "Alice", names |-> <<"BURGER">>]>>  >>,
                <<  <<"Salad">>  >>, <<  <<"Alice">>  >>)

OddResponses ==
    {Response("none", "none", EmptyDoc), Response("empty", "none", EmptyDoc),
     Response("text", "none", EmptyDoc)}
    \cup {Response("json", f, SmallDoc) : f \in {"json", "plain", "json_unclosed"}}
    \cup {Response("json", "none", d) :
            d \in {Doc(<<>>, SmallDoc.shared_items, SmallDoc.participants),
                   Doc(SmallDoc.assignments, SmallDoc.shared_items, <<>>),
                   Doc(SmallDoc.assignments, <<>>, SmallDoc.participants)}}

\* The completion API either raises or returns a message content
LLMReplies ==
    {[api |-> "raises", content |-> Response("none", "none", EmptyDoc)]}
    \cup {[api |-> "returns", content |-> r] : r \in WellFormedResponses \cup OddResponses}

---------------------------------------------------------------------------
(* parse_payment_context_with_llm: the pieces of the function *)

ErrNoResponse ==
    "Error: AI service failed to provide a response for context parsing."
ErrInvalidJson == "Error: AI service returned invalid JSON for context parsing."
ErrUnexpectedFormat ==
    "Error: AI service returned data in an unexpected format for context parsing."
ErrInternal == "Internal error during context processing."

\* a strategy without its try/except
StrategyGetResponse_Propagates(reply) ==
    IF reply.api = "raises"
    THEN [raised |-> TRUE, value |-> reply.content]
    ELSE [raised |-> FALSE, value |-> reply.content]

\* DeepSeekStrategy.get_response (OpenAIStrategy and GroqAIStrategy alike):
\* every exception of the API call becomes the text "An error occurred: ..."
StrategyGetResponse(reply) ==
    IF reply.api = "raises"
    THEN [raised |-> FALSE, value |-> Response("text", "none", reply.content.doc)]
    ELSE [raised |-> FALSE, value |-> reply.content]

\* `not llm_response_str` (line 250)
IsEmptyResponse(r) == r.kind \in {"none", "empty"}

\* strip(), the two code-fence cuts and json.loads (lines 262-268): the cut
\* [7:-3] of an opening fence without a closing one eats the end of the JSON
JsonLoads(r) == r.kind = "json" /\ r.fence # "json_unclosed"

\* ContextParsingResult.model_validate (line 269): assignments and
\* participants are required, shared_items defaults to []
SchemaValid(doc) == doc.assignments # <<>> /\ doc.participants # <<>>

Validated(doc) ==
    [assignments |-> doc.assignments[1],
     shared_items |-> IF doc.shared_items = <<>> THEN <<>> ELSE doc.shared_items[1],
     participants |-> doc.participants[1]]

NoParsingResult == [assignments |-> <<>>, shared_items |-> <<>>, participants |-> <<>>]

\* item_lookup (line 278): a later line with the same lowered name replaces
\* an earlier one
ItemLookup(items) ==
    [l \in {Lower(items[i].name) : i \in 1..Len(items)} |->
        items[CHOOSE i \in 1..Len(items) :
                /\ Lower(items[i].name) = l
                /\ \A j \in 1..Len(items) : Lower(items[j].name) = l => j <= i]]

\* the `not in processed_item_names` test left out
ClaimOutcome_NoDuplicateCheck(name, lookup, processed) ==
    IF Lower(name) \in DOMAIN lookup THEN "take" ELSE "unknown"

\* processed names compared as written instead of lowered
ClaimOutcome_CaseSensitiveDuplicate(name, lookup, processed) ==
    IF Lower(name) \in DOMAIN lookup /\ name \notin processed THEN "take"
    ELSE IF name \in processed THEN "duplicate"
    ELSE "unknown"

\* item_lookup[name.lower()] written for item_lookup.get(name.lower())
ClaimOutcome_UnknownRaises(name, lookup, processed) ==
    IF Lower(name) \notin DOMAIN lookup THEN "raise"
    ELSE IF Lower(name) \notin processed THEN "take"
    ELSE "duplicate"

\* The three-way test on one referenced name (lines 284-293 and 299-308)
ClaimOutcome(name, lookup, processed) ==
    IF Lower(name) \in DOMAIN lookup /\ Lower(name) \notin processed THEN "take"
    ELSE IF Lower(name) \in processed THEN "duplicate"
    ELSE "unknown"

\* unprocessed_items_lower (lines 311-312)
UnprocessedLower(items, processed) ==
    {Lower(items[i].name) : i \in 1..Len(items)} \ processed

\* whether unprocessed items are defaulted to shared (line 316)
DefaultToShared(parts) == parts # <<>>

\* the update with the assignment keys (line 329) left out
FinalParticipants_ListOnly(parts, fa) == {parts[i] : i \in 1..Len(parts)}

\* final_participants (lines 327-329)
FinalParticipants(parts, fa) == {parts[i] : i \in 1..Len(parts)} \cup DOMAIN fa

---------------------------------------------------------------------------
(* parse_payment_context_with_llm: the state machine *)

ParseInit ==
    /\ receipt_items \in {ParseReceipt(n) : n \in ReceiptNameLists}
    /\ llm_reply \in LLMReplies
    /\ pcParse = "call"
    /\ llm_response_str = Response("none", "none", EmptyDoc)
    /\ parsing_result = NoParsingResult
    /\ person_idx = 1
    /\ name_idx = 1
    /\ assigned_items_for_person = <<>>
    /\ final_assignments = NoFn
    /\ final_shared_items = <<>>
    /\ processed_item_names = {}
    /\ final_participants = {}
    /\ parse_result = "running"
    /\ parse_raised = FALSE

ParseIdle ==
    /\ receipt_items = <<>>
    /\ llm_reply = [api |-> "raises", content |-> Response("none", "none", EmptyDoc)]
    /\ pcParse = "idle"
    /\ llm_response_str = Response("none", "none", EmptyDoc)
    /\ parsing_result = NoParsingResult
    /\ person_idx = 1
    /\ name_idx = 1
    /\ assigned_items_for_person = <<>>
    /\ final_assignments = NoFn
    /\ final_shared_items = <<>>
    /\ processed_item_names = {}
    /\ final_participants = {}
    /\ parse_result = "running"
    /\ parse_raised = FALSE

parseLoopVars == <<person_idx, name_idx, assigned_items_for_person,
                   final_assignments, final_shared_items, processed_item_names>>

\* lines 245-252: the provider call stands outside the try block
ParseGetResponse ==
    /\ pcParse = "call"
    /\ LET r == StrategyGetResponse(llm_reply)
       IN  IF r.raised
           THEN /\ parse_raised' = TRUE
                /\ pcParse' = "done"
                /\ UNCHANGED <<llm_response_str, parse_result>>
           ELSE IF IsEmptyResponse(r.value)
           THEN /\ parse_result' = ErrNoResponse
                /\ llm_response_str' = r.value
                /\ pcParse' = "done"
                /\ UNCHANGED parse_raised
           ELSE /\ llm_response_str' = r.value
                /\ pcParse' = "decode"
                /\ UNCHANGED <<parse_result, parse_raised>>
    /\ UNCHANGED <<receipt_items, llm_reply, parsing_result, parseLoopVars,
                   final_participants, notParseVars>>

\* lines 260-271, with the handlers of lines 341-348
ParseDecode ==
    /\ pcParse = "decode"
    /\ IF ~JsonLoads(llm_response_str)
       THEN /\ parse_result' = ErrInvalidJson
            /\ pcParse' = "done"
            /\ UNCHANGED parsing_result
       ELSE IF ~SchemaValid(llm_response_str.doc)
       THEN /\ parse_result' = ErrUnexpectedFormat
            /\ pcParse' = "done"
            /\ UNCHANGED parsing_result
       ELSE /\ parsing_result' = Validated(llm_response_str.doc)
            /\ pcParse' = "assign"
            /\ UNCHANGED parse_result
    /\ UNCHANGED <<receipt_items, llm_reply, llm_response_str, parseLoopVars,
                   final_participants, parse_raised, notParseVars>>

\* lines 283-293: one name of the current person
ParseAssignName ==
    /\ pcParse = "assign"
    /\ person_idx <= Len(parsing_result.assignments)
    /\ name_idx <= Len(parsing_result.assignments[person_idx].names)
    /\ LET name == parsing_result.assignments[person_idx].names[name_idx]
           item_lookup == ItemLookup(receipt_items)
           outcome == ClaimOutcome(name, item_lookup, processed_item_names)
       IN  IF outcome = "take"
           THEN /\ assigned_items_for_person' =
                     Append(assigned_items_for_person, item_lookup[Lower(name)])
                /\ processed_item_names' = processed_item_names \cup {Lower(name)}
                /\ name_idx' = name_idx + 1
                /\ UNCHANGED <<pcParse, parse_result>>
           ELSE IF outcome \in {"duplicate", "unknown"}
           THEN /\ name_idx' = name_idx + 1
                /\ UNCHANGED <<assigned_items_for_person, processed_item_names,
                               pcParse, parse_result>>
           ELSE \* an exception inside the try block: lines 349-351
                /\ parse_result' = ErrInternal
                /\ pcParse' = "done"
                /\ UNCHANGED <<assigned_items_for_person, processed_item_names,
                               name_idx>>
    /\ UNCHANGED <<receipt_items, llm_reply, llm_response_str, parsing_result,
                   person_idx, final_assignments, final_shared_items,
                   final_participants, parse_raised, notParseVars>>

\* lines 294-295: the end of one person's list
ParseAssignPersonDone ==
    /\ pcParse = "assign"
    /\ person_idx <= Len(parsing_result.assignments)
    /\ name_idx > Len(parsing_result.assignments[person_idx].names)
    /\ LET person == parsing_result.assignments[person_idx].person
       IN  final_assignments' =
             IF assigned_items_for_person # <<>>
             THEN [p \in DOMAIN final_assignments \cup {person} |->
                     IF p = person THEN assigned_items_for_person
                     ELSE final_assignments[p]]
             ELSE final_assignments
    /\ assigned_items_for_person' = <<>>
    /\ person_idx' = person_idx + 1
    /\ name_idx' = 1
    /\ UNCHANGED <<receipt_items, llm_reply, llm_response_str, parsing_result,
                   pcParse, final_shared_items, processed_item_names,
                   final_participants, parse_result, parse_raised, notParseVars>>

\* line 281: the loop over assignments is exhausted
ParseAssignDone ==
    /\ pcParse = "assign"
    /\ person_idx > Len(parsing_result.assignments)
    /\ pcParse' = "shared"
    /\ name_idx' = 1
    /\ UNCHANGED <<receipt_items, llm_reply, llm_response_str, parsing_result,
                   person_idx, assigned_items_for_person, final_assignments,
                   final_shared_items, processed_item_names, final_participants,
                   parse_result, parse_raised, notParseVars>>

\* lines 298-308: one name of shared_items
ParseSharedName ==
    /\ pcParse = "shared"
    /\ name_idx <= Len(parsing_result.shared_items)
    /\ LET name == parsing_result.shared_items[name_idx]
           item_lookup == ItemLookup(receipt_items)
           outcome == ClaimOutcome(name, item_lookup, processed_item_names)
       IN  IF outcome = "take"
           THEN /\ final_shared_items' =
                     Append(final_shared_items, item_lookup[Lower(name)])
                /\ processed_item_names' = processed_item_names \cup {Lower(name)}
                /\ name_idx' = name_idx + 1
                /\ UNCHANGED <<pcParse, parse_result>>
           ELSE IF outcome \in {"duplicate", "unknown"}
           THEN /\ name_idx' = name_idx + 1
                /\ UNCHANGED <<final_shared_items, processed_item_names,
                               pcParse, parse_result>>
           ELSE /\ parse_result' = ErrInternal
                /\ pcParse' = "done"
                /\ UNCHANGED <<final_shared_items, processed_item_names, name_idx>>
    /\ UNCHANGED <<receipt_items, llm_reply, llm_response_str, parsing_result,
                   person_idx, assigned_items_for_person, final_assignments,
                   final_participants, parse_raised, notParseVars>>

\* lines 310-324: items no name resolved; the set is visited in any order
ParseUnprocessed ==
    /\ pcParse = "shared"
    /\ name_idx > Len(parsing_result.shared_items)
    /\ LET item_lookup == ItemLookup(receipt_items)
           unprocessed_items_lower ==
               UnprocessedLower(receipt_items, processed_item_names)
       IN  IF unprocessed_items_lower # {} /\ DefaultToShared(parsing_result.participants)
           THEN \E order \in IterationOrders(unprocessed_items_lower) :
                   /\ final_shared_items' =
                        final_shared_items
                        \o [i \in 1..Len(order) |-> item_lookup[order[i]]]
                   /\ processed_item_names' =
                        processed_item_names \cup unprocessed_items_lower
           ELSE UNCHANGED <<final_shared_items, processed_item_names>>
    /\ pcParse' = "return"
    /\ UNCHANGED <<receipt_items, llm_reply, llm_response_str, parsing_result,
                   person_idx, name_idx, assigned_items_for_person,
                   final_assignments, final_participants, parse_result,
                   parse_raised, notParseVars>>

\* lines 327-339
ParseReturn ==
    /\ pcParse = "return"
    /\ final_participants' =
         FinalParticipants(parsing_result.participants, final_assignments)
    /\ parse_result' = "ok"
    /\ pcParse' = "done"
    /\ UNCHANGED <<receipt_items, llm_reply, llm_response_str, parsing_result,
                   parseLoopVars, parse_raised, notParseVars>>

ParseNext ==
    \/ ParseGetResponse
    \/ ParseDecode
    \/ ParseAssignName
    \/ ParseAssignPersonDone
    \/ ParseAssignDone
    \/ ParseSharedName
    \/ ParseUnprocessed
    \/ ParseReturn

---------------------------------------------------------------------------
(* extract_receipt_data_from_image: the pieces of the function *)

\* What res.pages[0].markdown can be: None, "", blanks only, or text
OcrTexts == {"none", "empty", "blank", "text"}

\* A JSON document of the structuring answer: totalAmount present or not;
\* items absent, present with a line lacking a required field, or valid
ReceiptDoc(total, items) == [totalAmount |-> total, items |-> items]
ReceiptDocs == {ReceiptDoc(t, i) : t \in BOOLEAN, i \in {"missing", "invalid", "valid"}}
NoReceiptDoc == ReceiptDoc(FALSE, "missing")

StructuringReplies ==
    {[api |-> "raises", content |-> Response("none", "none", NoReceiptDoc)]}
    \cup {[api |-> "returns", content |-> Response(k, "none", NoReceiptDoc)] :
            k \in {"none", "empty", "text"}}
    \cup {[api |-> "returns", content |-> Response("json", f, d)] :
            f \in {"none", "json", "plain", "json_unclosed"}, d \in ReceiptDocs}

\* `not ocr_text` written for `not ocr_text.strip()`
NoUsableText_NoStrip(text) == text = "empty"

\* `not ocr_text.strip()` (line 125)
NoUsableText(text) == text \in {"empty", "blank"}

\* ReceiptData.model_validate (line 180): total_amount and items are required
ReceiptSchemaValid(doc) == doc.totalAmount /\ doc.items = "valid"

\* Lines 170-180: the exception the structuring answer runs into, or "" when
\* it parses and validates.  None has no strip().
StructuringException(r) ==
    IF r.kind = "none" THEN "AttributeError"
    ELSE IF ~JsonLoads(r) THEN "JSONDecodeError"
    ELSE IF ~ReceiptSchemaValid(r.doc) THEN "ValidationError"
    ELSE ""

\* `except json.JSONDecodeError` written for `except Exception`
StructuringHandlerCatches_JsonOnly(exc) == exc = "JSONDecodeError"

\* `except Exception` of lines 121 and 184 catches all of them
RecognitionHandlerCatches(exc) == TRUE
StructuringHandlerCatches(exc) == TRUE

---------------------------------------------------------------------------
(* extract_receipt_data_from_image: the state machine *)

NoStructuringResponse == Response("none", "none", NoReceiptDoc)

ExtractInit ==
    /\ pcExtract = "start"
    /\ invocations = 1
    /\ mistral_api_key \in BOOLEAN
    /\ tmp_files = 0
    /\ recognition = "pending"
    /\ ocr_text = "empty"
    /\ structuring_calls = 0
    /\ structuring_response = NoStructuringResponse
    /\ extract_result = "running"
    /\ receipt_data = NoReceiptDoc
    /\ extract_raised = FALSE

ExtractIdle ==
    /\ pcExtract = "idle"
    /\ invocations = 0
    /\ mistral_api_key = FALSE
    /\ tmp_files = 0
    /\ recognition = "pending"
    /\ ocr_text = "empty"
    /\ structuring_calls = 0
    /\ structuring_response = NoStructuringResponse
    /\ extract_result = "running"
    /\ receipt_data = NoReceiptDoc
    /\ extract_raised = FALSE

\* return None
ExtractFail ==
    /\ extract_result' = "None"
    /\ pcExtract' = "done"

\* an exception inside a try block: caught and turned into None, or let go
ExtractRaise(caught) ==
    IF caught
    THEN ExtractFail /\ UNCHANGED extract_raised
    ELSE /\ extract_raised' = TRUE
         /\ pcExtract' = "done"
         /\ UNCHANGED extract_result

\* lines 73-76
ExtractCheckKey ==
    /\ pcExtract = "start"
    /\ IF ~mistral_api_key THEN ExtractFail ELSE pcExtract' = "save" /\ UNCHANGED extract_result
    /\ UNCHANGED <<invocations, mistral_api_key, tmp_files, recognition, ocr_text,
                   structuring_calls, structuring_response, receipt_data,
                   extract_raised, notExtractVars>>

\* lines 82-87: the image goes to a NamedTemporaryFile(delete=False); the
\* client's constructor or the write may raise
ExtractSaveTemp ==
    /\ pcExtract = "save"
    /\ \E ok \in BOOLEAN :
        IF ok
        THEN /\ tmp_files' = tmp_files + 1
             /\ pcExtract' = "upload"
             /\ UNCHANGED <<recognition, extract_result, extract_raised>>
        ELSE /\ recognition' = "error"
             /\ ExtractRaise(RecognitionHandlerCatches("OSError"))
             /\ UNCHANGED tmp_files
    /\ UNCHANGED <<invocations, mistral_api_key, ocr_text, structuring_calls,
                   structuring_response, receipt_data, notExtractVars>>

\* lines 89-100: files.upload and files.get_signed_url
ExtractUpload ==
    /\ pcExtract = "upload"
    /\ \E ok \in BOOLEAN :
        IF ok
        THEN /\ pcExtract' = "ocr"
             /\ UNCHANGED <<recognition, extract_result, extract_raised>>
        ELSE /\ recognition' = "error"
             /\ ExtractRaise(RecognitionHandlerCatches("SDKError"))
    /\ UNCHANGED <<invocations, mistral_api_key, tmp_files, ocr_text,
                   structuring_calls, structuring_response, receipt_data,
                   notExtractVars>>

\* lines 102-123: ocr.process and the first page's markdown
ExtractOcr ==
    /\ pcExtract = "ocr"
    /\ \E outcome \in {"error", "no_pages"} \cup OcrTexts :
        IF outcome = "error"
        THEN /\ recognition' = "error"
             /\ ExtractRaise(RecognitionHandlerCatches("SDKError"))
             /\ UNCHANGED ocr_text
        ELSE IF outcome = "no_pages"
        THEN /\ recognition' = "no_pages"
             /\ ExtractFail
             /\ UNCHANGED <<ocr_text, extract_raised>>
        ELSE IF outcome = "none"
        THEN \* ocr_text[:500] on None, inside the try block
             /\ recognition' = "error"
             /\ ocr_text' = "none"
             /\ ExtractRaise(RecognitionHandlerCatches("TypeError"))
        ELSE /\ recognition' = "pages"
             /\ ocr_text' = outcome
             /\ pcExtract' = "text"
             /\ UNCHANGED <<extract_result, extract_raised>>
    /\ UNCHANGED <<invocations, mistral_api_key, tmp_files, structuring_calls,
                   structuring_response, receipt_data, notExtractVars>>

\* lines 125-127
ExtractCheckText ==
    /\ pcExtract = "text"
    /\ IF NoUsableText(ocr_text)
       THEN ExtractFail
       ELSE pcExtract' = "structure" /\ UNCHANGED extract_result
    /\ UNCHANGED <<invocations, mistral_api_key, tmp_files, recognition, ocr_text,
                   structuring_calls, structuring_response, receipt_data,
                   extract_raised, notExtractVars>>

\* lines 139-167: the prompt and ai_service.get_response
ExtractStructure ==
    /\ pcExtract = "structure"
    /\ \E reply \in StructuringReplies :
        LET r == StrategyGetResponse(reply)
        IN  /\ structuring_calls' = structuring_calls + 1
            /\ IF r.raised
               THEN /\ ExtractRaise(StructuringHandlerCatches("APIError"))
                    /\ UNCHANGED structuring_response
               ELSE /\ structuring_response' = r.value
                    /\ pcExtract' = "validate"
                    /\ UNCHANGED <<extract_result, extract_raised>>
    /\ UNCHANGED <<invocations, mistral_api_key, tmp_files, recognition, ocr_text,
                   receipt_data, notExtractVars>>

\* lines 169-186
ExtractValidate ==
    /\ pcExtract = "validate"
    /\ LET exc == StructuringException(structuring_response)
       IN  IF exc = ""
           THEN /\ receipt_data' = structuring_response.doc
                /\ extract_result' = "ReceiptData"
                /\ pcExtract' = "done"
                /\ UNCHANGED extract_raised
           ELSE /\ ExtractRaise(StructuringHandlerCatches(exc))
                /\ UNCHANGED receipt_data
    /\ UNCHANGED <<invocations, mistral_api_key, tmp_files, recognition, ocr_text,
                   structuring_calls, structuring_response, notExtractVars>>

\* the next call of the function: its locals are fresh, the disk is not
ExtractInvoke ==
    /\ pcExtract = "done"
    /\ ~extract_raised
    /\ invocations < MaxInvocations
    /\ invocations' = invocations + 1
    /\ pcExtract' = "start"
    /\ recognition' = "pending"
    /\ ocr_text' = "empty"
    /\ structuring_calls' = 0
    /\ structuring_response' = NoStructuringResponse
    /\ extract_result' = "running"
    /\ receipt_data' = NoReceiptDoc
    /\ UNCHANGED <<mistral_api_key, tmp_files, extract_raised, notExtractVars>>

ExtractNext ==
    \/ ExtractCheckKey
    \/ ExtractSaveTemp
    \/ ExtractUpload
    \/ ExtractOcr
    \/ ExtractCheckText
    \/ ExtractStructure
    \/ ExtractValidate
    \/ ExtractInvoke

---------------------------------------------------------------------------
(* format_split_results and handle_bill_split_request *)

NoResultsMessage ==
    [text |-> "Could not calculate the split. No results generated."]

\* the people of a result list, in list order
PersonsOf(rs) == [i \in 1..Len(rs) |-> rs[i].person]

\* a charge line is written when the charge is not None and > 0 (lines 543-546)
ChargeLine(charge) == IF charge # <<>> /\ charge[1] > 0 THEN charge ELSE <<>>

\* lines 548-549: the sum of line 529 runs over the list in list order
FormatWarning(split_results, receipt_total, boundary) ==
    ExceedsTolerance(SumOwes(split_results), receipt_total, Len(split_results),
                     boundary[SumClass(PersonsOf(split_results))])

\* format_split_results (lines 516-561): the parts of the message
FormatSplitResults(split_results, receipt_total, charge, tax, boundary) ==
    IF split_results = <<>> THEN NoResultsMessage
    ELSE [result_lines |-> split_results,
          total_paid |-> receipt_total,
          service_line |-> ChargeLine(charge),
          tax_line |-> ChargeLine(tax),
          split_sum |-> SumOwes(split_results),
          warning |-> FormatWarning(split_results, receipt_total, boundary),
          disclaimer |-> TRUE]

BillPersons == {"Alice", "Bob", "Carol"}

\* the lines of the receipts the handler is run on
BillItems == <<[name |-> "Burger", total_price |-> 838],
               [name |-> "Salad", total_price |-> 2601],
               [name |-> "Drinks", total_price |-> 251]>>

\* what extract_receipt_data_from_image can return: None, a receipt without
\* lines, or a receipt whose stated total is the lines plus the charges plus
\* a few cents or five dollars
BillReceipts ==
    {<<>>}
    \cup {<<[items |-> <<>>, total_amount |-> 0,
             service_charge |-> <<>>, tax_amount |-> <<>>]>>}
    \cup {<<[items |-> BillItems,
             total_amount |-> SumPrices(BillItems) + OrZero(sc) + OrZero(tx) + skew,
             service_charge |-> sc, tax_amount |-> tx]>> :
            sc \in Optional({100}), tx \in Optional({0}), skew \in {0, 1, 2, 3, 500}}

\* what parse_payment_context_with_llm can return for the lines: an error
\* string (a record with the one field error), or buckets that hold each line at most once with every holder a
\* participant; a line stays out of every bucket only when the model listed
\* no participants
BillParseResults(items) ==
    {[error |-> e] : e \in {ErrNoResponse, ErrInvalidJson, ErrUnexpectedFormat}}
    \cup UNION {
          LET keys == {p \in BillPersons : \E i \in 1..Len(items) : alloc[i] = p}
              listed == {{}, {"Carol"}, BillPersons}
          IN  {[assignments |-> [p \in keys |-> Bucket(items, alloc, p, 1)],
                shared_items |-> Bucket(items, alloc, "shared", 1),
                participants |-> keys \cup l] :
                  l \in {m \in listed :
                           (\E i \in 1..Len(items) : alloc[i] = "none") => m = {}}} :
          alloc \in [1..Len(items) -> BillPersons \cup {"shared", "none"}]}

FailureReplies == {"extract_failed", "no_items", "no_ai_service", "parse_failed",
                   "no_participants", "calculation_failed"}

NoMessage == [text |-> ""]
NoParseResult == [error |-> ""]

BillInit ==
    /\ pcBill = "start"
    /\ stage_log = <<>>
    /\ replies = <<>>
    /\ bill_receipt = <<>>
    /\ bill_parse_result = NoParseResult
    /\ final_message = NoMessage

BillIdle ==
    /\ pcBill = "idle"
    /\ stage_log = <<>>
    /\ replies = <<>>
    /\ bill_receipt = <<>>
    /\ bill_parse_result = NoParseResult
    /\ final_message = NoMessage

\* the return after a failure reply left out
BillAbort_NoReturn(reply) ==
    /\ replies' = Append(replies, reply)
    /\ pcBill' = "format"

\* a reply that ends the run
BillAbort(reply) ==
    /\ replies' = Append(replies, reply)
    /\ pcBill' = "done"

\* lines 566-576
BillExtract ==
    /\ pcBill = "start"
    /\ stage_log' = Append(stage_log, "extract")
    /\ \E r \in BillReceipts :
        /\ bill_receipt' = r
        /\ IF r = <<>>
           THEN /\ replies' = replies \o <<"processing", "extract_failed">>
                /\ pcBill' = "done"
           ELSE IF r[1].items = <<>>
           THEN /\ replies' = replies \o <<"processing", "no_items">>
                /\ pcBill' = "done"
           ELSE /\ replies' = Append(replies, "processing")
                /\ pcBill' = "service"
    /\ UNCHANGED <<bill_parse_result, final_message, notBillVars>>

\* lines 579-586: context.bot_data.get("ai_service")
BillGetService ==
    /\ pcBill = "service"
    /\ \E ai_service \in BOOLEAN :
        IF ai_service
        THEN /\ replies' = Append(replies, "analyzing")
             /\ pcBill' = "parse"
        ELSE BillAbort("no_ai_service")
    /\ UNCHANGED <<stage_log, bill_receipt, bill_parse_result, final_message,
                   notBillVars>>

\* lines 588-607
BillParse ==
    /\ pcBill = "parse"
    /\ stage_log' = Append(stage_log, "parse")
    /\ \E r \in BillParseResults(bill_receipt[1].items) :
        /\ bill_parse_result' = r
        /\ IF "error" \in DOMAIN r
           THEN BillAbort("parse_failed")
           ELSE IF r.participants = {}
                   /\ (DOMAIN r.assignments # {} \/ r.shared_items # <<>>)
           THEN BillAbort("no_participants")
           ELSE /\ replies' = Append(replies, "calculating")
                /\ pcBill' = "calculate"
    /\ UNCHANGED <<bill_receipt, final_message, notBillVars>>

\* lines 609-616: the call of calculate_split
BillCalculate ==
    /\ pcBill = "calculate"
    /\ pcCalc = "idle"
    /\ stage_log' = Append(stage_log, "calculate")
    /\ assignments' = bill_parse_result.assignments
    /\ shared_items' = bill_parse_result.shared_items
    /\ arg_participants' = bill_parse_result.participants
    /\ participants' = bill_parse_result.participants
    /\ total_amount' = bill_receipt[1].total_amount
    /\ service_charge' = bill_receipt[1].service_charge
    /\ tax_amount' = bill_receipt[1].tax_amount
    /\ pcCalc' = "start"
    /\ pcBill' = "calculating"
    /\ UNCHANGED <<person_subtotals, total_items_cost,
                   shared_item_cost_per_person, service_charge_per_person,
                   person_totals_after_service, tax_per_person,
                   person_totals_after_tax, final_split, total_warning,
                   float_boundary, calc_result>>
    /\ UNCHANGED <<replies, bill_receipt, bill_parse_result, final_message,
                   parseVars, extractVars, user, quotaVars, hookVars, botVars>>

\* lines 618-620: calculate_split returned
BillCheckSplit ==
    /\ pcBill = "calculating"
    /\ pcCalc = "done"
    /\ IF calc_result # "ok"
       THEN BillAbort("calculation_failed")
       ELSE /\ pcBill' = "format"
            /\ UNCHANGED replies
    /\ UNCHANGED <<stage_log, bill_receipt, bill_parse_result, final_message,
                   notBillVars>>

\* lines 623-631
BillFormat ==
    /\ pcBill = "format"
    /\ stage_log' = Append(stage_log, "format")
    /\ final_message' =
         FormatSplitResults(final_split, bill_receipt[1].total_amount,
                            bill_receipt[1].service_charge,
                            bill_receipt[1].tax_amount, float_boundary)
    /\ replies' = Append(replies, "result")
    /\ pcBill' = "done"
    /\ UNCHANGED <<bill_receipt, bill_parse_result, notBillVars>>

BillNext ==
    \/ BillExtract
    \/ BillGetService
    \/ BillParse
    \/ BillCalculate
    \/ CalcPreconditions
    \/ CalcDirectCosts
    \/ CalcSharedCosts
    \/ CalcServiceCharge
    \/ CalcTax
    \/ CalcFinalize
    \/ BillCheckSplit
    \/ BillFormat

---------------------------------------------------------------------------
(* UsageService.within_quota, QuotaManager and is_premium *)

\* Quota limits for free users
DAILY_LIMIT == 5
MONTHLY_LIMIT == 100
GROUP_LIMIT == 3

NoUser == <<>>

\* the user's row has premium set and an expiry, if any, that lies ahead
PremiumUnexpired(row, t) ==
    /\ row # NoUser
    /\ row[1].premium
    /\ row[1].premium_expires_at # <<>> => row[1].premium_expires_at[1] > t

\* a premium row without an expiry date treated as expired
IsPremium_RequiresExpiry(row, t, error) ==
    [verdict |-> ~error /\ PremiumUnexpired(row, t)
                 /\ row[1].premium_expires_at # <<>>,
     row |-> row]

\* is_premium (user_management.py lines 89-133): the verdict and the row it
\* leaves behind; an expired premium row is downgraded, a database error
\* makes the verdict False
IsPremium(row, t, error) ==
    IF error \/ row = NoUser \/ ~row[1].premium
    THEN [verdict |-> FALSE, row |-> row]
    ELSE IF PremiumUnexpired(row, t)
    THEN [verdict |-> TRUE, row |-> row]
    ELSE [verdict |-> FALSE,
          row |-> <<[premium |-> FALSE, premium_expires_at |-> <<>>]>>]

\* the counter compared with <= instead of <
UsageWithin_Inclusive(counter, fails, limit) ==
    (IF fails THEN limit ELSE OrZero(counter)) <= limit

\* within_daily_quota and within_monthly_quota (lines 142-150) on top of
\* get_daily_usage and get_monthly_usage (lines 29-47): a missing key counts
\* as 0, a Redis error as the limit
UsageWithin(counter, fails, limit) ==
    (IF fails THEN limit ELSE OrZero(counter)) < limit

\* within_group_quota (lines 152-168)
WithinGroupQuota(groups, chat, failing) ==
    IF "sismember" \in failing THEN FALSE
    ELSE IF chat \in groups THEN TRUE
    ELSE IF "scard" \in failing THEN FALSE
    ELSE Cardinality(groups) < GROUP_LIMIT

\* the Redis reads that within_quota makes
ReadsMade(groups, chat, failing) ==
    {"get_daily", "get_monthly", "sismember"}
    \cup (IF "sismember" \notin failing /\ chat \notin groups
          THEN {"scard"} ELSE {})

NoVerdict == <<>>

QuotaInit ==
    /\ user \in {NoUser}
                \cup {<<[premium |-> p, premium_expires_at |-> e]>> :
                        p \in BOOLEAN, e \in Optional({1, 2, 3})}
    /\ now_utc = 2
    /\ db_error \in BOOLEAN
    /\ redis_daily \in Optional({0, DAILY_LIMIT - 1, DAILY_LIMIT, DAILY_LIMIT + 1})
    /\ redis_monthly \in Optional({MONTHLY_LIMIT - 1, MONTHLY_LIMIT})
    /\ redis_groups \in {{}, {1, 2}, {1, 2, 3}, {2, 3, 4}, {1, 2, 3, 4}}
    /\ redis_failing \in {{}, {"get_daily"}, {"get_monthly"}, {"sismember"},
                          {"scard"},
                          {"get_daily", "get_monthly", "sismember", "scard"}}
    /\ chat_id \in {1, 4}
    /\ pcQuota = "premium"
    /\ daily_ok = FALSE
    /\ monthly_ok = FALSE
    /\ group_ok = FALSE
    /\ quota_result = NoVerdict

QuotaIdle ==
    /\ now_utc = 0
    /\ db_error = FALSE
    /\ redis_daily = <<>>
    /\ redis_monthly = <<>>
    /\ redis_groups = {}
    /\ redis_failing = {}
    /\ chat_id = 0
    /\ pcQuota = "idle"
    /\ daily_ok = FALSE
    /\ monthly_ok = FALSE
    /\ group_ok = FALSE
    /\ quota_result = NoVerdict

\* usage_service.py lines 38-42: premium users bypass all quota checks
QuotaCheckPremium ==
    /\ pcQuota = "premium"
    /\ LET answer == IsPremium(user, now_utc, db_error)
       IN  /\ user' = answer.row
           /\ IF answer.verdict
              THEN /\ quota_result' = <<TRUE>>
                   /\ pcQuota' = "done"
              ELSE /\ pcQuota' = "daily"
                   /\ UNCHANGED quota_result
    /\ UNCHANGED <<now_utc, db_error, redis_daily, redis_monthly, redis_groups,
                   redis_failing, chat_id, daily_ok, monthly_ok, group_ok,
                   notQuotaVars>>

\* quota_manager.py line 172
QuotaCheckDaily ==
    /\ pcQuota = "daily"
    /\ daily_ok' = UsageWithin(redis_daily, "get_daily" \in redis_failing, DAILY_LIMIT)
    /\ pcQuota' = "monthly"
    /\ UNCHANGED <<user, now_utc, db_error, redis_daily, redis_monthly,
                   redis_groups, redis_failing, chat_id, monthly_ok, group_ok,
                   quota_result, notQuotaVars>>

\* quota_manager.py line 173
QuotaCheckMonthly ==
    /\ pcQuota = "monthly"
    /\ monthly_ok' = UsageWithin(redis_monthly, "get_monthly" \in redis_failing,
                                 MONTHLY_LIMIT)
    /\ pcQuota' = "group"
    /\ UNCHANGED <<user, now_utc, db_error, redis_daily, redis_monthly,
                   redis_groups, redis_failing, chat_id, daily_ok, group_ok,
                   quota_result, notQuotaVars>>

\* quota_manager.py lines 174-176 and the return of usage_service.py line 45
QuotaCheckGroup ==
    /\ pcQuota = "group"
    /\ group_ok' = WithinGroupQuota(redis_groups, chat_id, redis_failing)
    /\ quota_result' = <<daily_ok /\ monthly_ok /\ group_ok'>>
    /\ pcQuota' = "done"
    /\ UNCHANGED <<user, now_utc, db_error, redis_daily, redis_monthly,
                   redis_groups, redis_failing, chat_id, daily_ok, monthly_ok,
                   notQuotaVars>>

QuotaNext ==
    \/ QuotaCheckPremium
    \/ QuotaCheckDaily
    \/ QuotaCheckMonthly
    \/ QuotaCheckGroup

---------------------------------------------------------------------------
(* WebhookHandlers.handle_stripe_webhook and StripeService *)

\* seconds a webhook's timestamp may lie from the current time
TIMESTAMP_TOLERANCE == 300

\* What a Stripe-Signature header can be: unparseable, without a v1 element,
\* with a timestamp that is no integer, or well-formed with a digest that
\* matches the payload or not and a timestamp of some age
Signatures ==
    {[format |-> f, mac |-> TRUE, age |-> 0] :
        f \in {"malformed", "no_v1", "bad_timestamp"}}
    \cup {[format |-> "ok", mac |-> m, age |-> a] :
            m \in BOOLEAN,
            a \in {0, TIMESTAMP_TOLERANCE, TIMESTAMP_TOLERANCE + 1}}

\* the comparison of the digests left out
VerifyWebhookSignature_NoDigestCheck(secret, signature) ==
    /\ secret
    /\ signature.format = "ok"
    /\ signature.age <= TIMESTAMP_TOLERANCE

\* verify_webhook_signature (stripe_service.py lines 28-85)
VerifyWebhookSignature(secret, signature) ==
    /\ secret
    /\ signature.format \notin {"malformed", "no_v1"}
    /\ signature.mac
    /\ signature.format # "bad_timestamp"
    /\ signature.age <= TIMESTAMP_TOLERANCE

\* The events: the type and what the handlers read from data.object
Event(type, customer, subscription, status, cancel) ==
    [type |-> type, customer |-> customer, subscription |-> subscription,
     status |-> status, cancel_at_period_end |-> cancel]

Events ==
    {Event("checkout.session.completed", c, s, "complete", FALSE) :
        c \in BOOLEAN, s \in BOOLEAN}
    \cup {Event("customer.subscription.updated", TRUE, TRUE, st, c) :
            st \in {"active", "canceled", "past_due"}, c \in BOOLEAN}
    \cup {Event("customer.subscription.deleted", TRUE, TRUE, "canceled", FALSE),
          Event("invoice.payment_failed", TRUE, FALSE, "open", FALSE),
          Event("test.event", FALSE, FALSE, "", FALSE)}

\* the requests: without a body, without a signature header, or with both;
\* the body is JSON or not
Requests ==
    {[has_body |-> FALSE, signature |-> <<>>, json |-> FALSE,
      event |-> Event("test.event", FALSE, FALSE, "", FALSE)]}
    \cup {[has_body |-> TRUE, signature |-> s, json |-> j, event |-> e] :
            s \in Optional(Signatures), j \in BOOLEAN, e \in Events}

\* the end of the subscription's current period
PeriodEnd == <<5>>

\* a scheduled cancellation treated as a cancellation
SubscriptionUpdate_CancelAtOnce(status, cancel) ==
    IF status = "active" /\ ~cancel THEN "activate"
    ELSE IF status \in {"active", "canceled", "unpaid", "incomplete_expired"}
    THEN "deactivate"
    ELSE "none"

\* the branches of handle_subscription_updated (lines 166-216)
SubscriptionUpdate(status, cancel) ==
    IF status = "active" THEN (IF cancel THEN "keep" ELSE "activate")
    ELSE IF status \in {"canceled", "unpaid", "incomplete_expired"}
    THEN "deactivate"
    ELSE "none"

\* update_premium_status (user_management.py lines 48-87): the row it writes
UpdatePremiumStatus(premium, expires_at) ==
    <<[premium |-> premium, premium_expires_at |-> expires_at]>>

HookInit ==
    /\ request \in Requests
    /\ stripe_env \in [secret : BOOLEAN, retrieve_ok : BOOLEAN,
                       telegram_id : BOOLEAN, db_ok : BOOLEAN]
    /\ user \in {NoUser, UpdatePremiumStatus(FALSE, <<>>),
                 UpdatePremiumStatus(TRUE, <<3>>)}
    /\ user_before = user
    /\ pcHook = "receive"
    /\ hook_verified = NoVerdict
    /\ handlers_run = <<>>
    /\ update_calls = 0
    /\ handler_success = FALSE
    /\ notification = ""
    /\ hook_response = 0

HookIdle ==
    /\ request = <<>>
    /\ stripe_env = <<>>
    /\ user_before = NoUser
    /\ pcHook = "idle"
    /\ hook_verified = NoVerdict
    /\ handlers_run = <<>>
    /\ update_calls = 0
    /\ handler_success = FALSE
    /\ notification = ""
    /\ hook_response = 0

\* the handler returns a status
HookReturn(status) ==
    /\ hook_response' = status
    /\ pcHook' = "done"

\* webhook_handlers.py lines 31-55
HookVerify ==
    /\ pcHook = "receive"
    /\ IF ~request.has_body
       THEN HookReturn(400) /\ UNCHANGED hook_verified
       ELSE IF request.signature = <<>>
       THEN HookReturn(400) /\ UNCHANGED hook_verified
       ELSE LET ok == VerifyWebhookSignature(stripe_env.secret, request.signature[1])
            IN  /\ hook_verified' = <<ok>>
                /\ IF ok
                   THEN pcHook' = "dispatch" /\ UNCHANGED hook_response
                   ELSE HookReturn(401)
    /\ UNCHANGED <<request, stripe_env, user, user_before, handlers_run,
                   update_calls, handler_success, notification, notHookVars>>

\* webhook_handlers.py lines 57-94: parse the body and pick the handler
HookDispatch ==
    /\ pcHook = "dispatch"
    /\ IF ~request.json
       THEN HookReturn(400) /\ UNCHANGED handler_success
       ELSE /\ UNCHANGED hook_response
            /\ IF request.event.type \in
                    {"checkout.session.completed", "customer.subscription.updated",
                     "customer.subscription.deleted", "invoice.payment_failed"}
               THEN pcHook' = request.event.type /\ UNCHANGED handler_success
               ELSE pcHook' = "respond" /\ handler_success' = TRUE
    /\ UNCHANGED <<request, stripe_env, user, user_before, hook_verified,
                   handlers_run, update_calls, notification, notHookVars>>

\* the call of update_premium_status by activate_premium and
\* deactivate_premium (stripe_service.py lines 222-282) and what follows it;
\* activate_premium also deletes the user's Redis group set, which is empty
\* while a webhook is handled
HookUpdatePremium(premium, expires_at, note) ==
    /\ update_calls' = update_calls + 1
    /\ IF stripe_env.db_ok
       THEN /\ user' = UpdatePremiumStatus(premium, expires_at)
            /\ handler_success' = TRUE
            /\ notification' = note
       ELSE UNCHANGED <<user, handler_success, notification>>

\* the handler fails, or succeeds without touching the user
HookNoUpdate(success, note) ==
    /\ handler_success' = success
    /\ notification' = IF success THEN note ELSE notification
    /\ UNCHANGED <<user, update_calls>>

\* stripe_service.py lines 87-136 and webhook_handlers.py lines 69-72
HandleCheckoutCompleted ==
    /\ pcHook = "checkout.session.completed"
    /\ handlers_run' = Append(handlers_run, "handle_checkout_completed")
    /\ IF /\ request.event.customer
          /\ request.event.subscription
          /\ stripe_env.retrieve_ok
          /\ stripe_env.telegram_id
       THEN HookUpdatePremium(TRUE, PeriodEnd, "welcome")
       ELSE HookNoUpdate(FALSE, "")
    /\ pcHook' = "respond"
    /\ UNCHANGED <<request, stripe_env, user_before, hook_verified,
                   hook_response, notHookVars>>

\* stripe_service.py lines 138-220 and webhook_handlers.py lines 75-78, 88-90
HandleSubscriptionUpdated ==
    /\ pcHook \in {"customer.subscription.updated", "invoice.payment_failed"}
    /\ handlers_run' = Append(handlers_run, "handle_subscription_updated")
    /\ LET kind == SubscriptionUpdate(request.event.status,
                                      request.event.cancel_at_period_end)
           note == IF pcHook = "invoice.payment_failed" THEN "downgrade"
                   ELSE "subscription"
       IN  IF /\ request.event.subscription
              /\ stripe_env.retrieve_ok
              /\ stripe_env.telegram_id
           THEN CASE kind = "keep" -> HookNoUpdate(TRUE, note)
                  [] kind = "activate" -> HookUpdatePremium(TRUE, PeriodEnd, note)
                  [] kind = "deactivate" -> HookUpdatePremium(FALSE, <<>>, note)
                  [] OTHER -> HookNoUpdate(FALSE, "")
           ELSE HookNoUpdate(FALSE, "")
    /\ pcHook' = "respond"
    /\ UNCHANGED <<request, stripe_env, user_before, hook_verified,
                   hook_response, notHookVars>>

\* stripe_service.py lines 478-514 and webhook_handlers.py lines 82-84
HandleSubscriptionDeleted ==
    /\ pcHook = "customer.subscription.deleted"
    /\ handlers_run' = Append(handlers_run, "handle_subscription_deleted")
    /\ IF stripe_env.telegram_id
       THEN HookUpdatePremium(FALSE, <<>>, "downgrade")
       ELSE HookNoUpdate(FALSE, "")
    /\ pcHook' = "respond"
    /\ UNCHANGED <<request, stripe_env, user_before, hook_verified,
                   hook_response, notHookVars>>

\* webhook_handlers.py lines 96-101
HookRespond ==
    /\ pcHook = "respond"
    /\ HookReturn(IF handler_success THEN 200 ELSE 500)
    /\ UNCHANGED <<request, stripe_env, user, user_before, hook_verified,
                   handlers_run, update_calls, handler_success, notification,
                   notHookVars>>

HookNext ==
    \/ HookVerify
    \/ HookDispatch
    \/ HandleCheckoutCompleted
    \/ HandleSubscriptionUpdated
    \/ HandleSubscriptionDeleted
    \/ HookRespond

---------------------------------------------------------------------------
(* The quota-checked handlers and QuotaManager.increment_daily_usage *)

\* summarize, split_bill_photo_with_context and handle_reply
QuotaCheckedHandlers == {"summarize", "split_bill_photo_with_context", "handle_reply"}

\* redis.setex(key, seconds, 1): Redis refuses an expiry of 0 seconds
SetexRaises(seconds) == seconds <= 0

\* redis.incr(key) (line 71): an absent key counts as 0 and the key it
\* creates carries no expiry; the expiry of an existing key is kept
Incr(count, ttl) == [count |-> <<OrZero(count) + 1>>, ttl |-> ttl]

UsageInit ==
    /\ seconds_until_midnight \in 0..(DayLength - 1)
    /\ daily_count = <<>>
    /\ daily_ttl = <<>>
    /\ pcUsage = "idle"
    /\ handler = "none"
    /\ current = <<>>
    /\ accepted = 0
    /\ uncounted = FALSE

UsageIdle ==
    /\ seconds_until_midnight = 0
    /\ daily_count = <<>>
    /\ daily_ttl = <<>>
    /\ pcUsage = "off"
    /\ handler = "none"
    /\ current = <<>>
    /\ accepted = 0
    /\ uncounted = FALSE

\* the application takes the next update of the user: updates are handled
\* one at a time (ApplicationBuilder().token(...).build(), main.py line 48)
UsageReceive ==
    /\ pcUsage = "idle"
    /\ accepted < MaxAccepted
    /\ \E h \in QuotaCheckedHandlers : handler' = h
    /\ pcUsage' = "check"
    /\ UNCHANGED <<seconds_until_midnight, daily_count, daily_ttl, current,
                   accepted, uncounted, notUsageVars>>

\* the handler from its quota check up to increment_counters: within_quota of
\* a user who is not premium, then what the handler does before it counts
\* (summarize: the message count may be invalid, lines 204-209;
\* split_bill_photo_with_context: the download of the photo may raise,
\* lines 826-830)
UsageWithinQuota ==
    /\ pcUsage = "check"
    /\ \E monthly_and_group_ok \in BOOLEAN, goes_on \in BOOLEAN :
        LET within_quota == /\ UsageWithin(daily_count, FALSE, DAILY_LIMIT)
                            /\ monthly_and_group_ok
        IN  /\ (handler = "handle_reply") => goes_on
            /\ pcUsage' = IF within_quota /\ goes_on THEN "get" ELSE "idle"
    /\ UNCHANGED <<seconds_until_midnight, daily_count, daily_ttl, handler,
                   current, accepted, uncounted, notUsageVars>>

\* UsageService.increment_counters (usage_service.py lines 62-79) up to
\* `current = await self.redis.get(key)` (quota_manager.py line 65);
\* get_or_create_user raises when the database fails, the counters are then
\* left alone and the handler goes on with the request
UsageIncrementGet ==
    /\ pcUsage = "get"
    /\ \E database_raises \in BOOLEAN :
        IF database_raises
        THEN /\ pcUsage' = "idle"
             /\ accepted' = accepted + 1
             /\ uncounted' = TRUE
             /\ UNCHANGED current
        ELSE /\ pcUsage' = "write"
             /\ current' = daily_count
             /\ UNCHANGED <<accepted, uncounted>>
    /\ UNCHANGED <<seconds_until_midnight, daily_count, daily_ttl, handler,
                   notUsageVars>>

\* lines 66-73 and 205-216: setex with the seconds until midnight when the
\* key was absent at line 65, incr otherwise; then the handler does its work
UsageIncrementWrite ==
    /\ pcUsage = "write"
    /\ IF current = <<>>
       THEN IF SetexRaises(seconds_until_midnight)
            THEN /\ uncounted' = TRUE
                 /\ UNCHANGED <<daily_count, daily_ttl>>
            ELSE /\ daily_count' = <<1>>
                 /\ daily_ttl' = <<seconds_until_midnight>>
                 /\ UNCHANGED uncounted
       ELSE /\ daily_count' = Incr(daily_count, daily_ttl).count
            /\ daily_ttl' = Incr(daily_count, daily_ttl).ttl
            /\ UNCHANGED uncounted
    /\ accepted' = accepted + 1
    /\ pcUsage' = "idle"
    /\ UNCHANGED <<seconds_until_midnight, handler, current, notUsageVars>>

\* a second passes on the clock of Singapore and of Redis; a key whose expiry
\* has run out is deleted
UsageTick ==
    /\ pcUsage # "off"
    /\ seconds_until_midnight' =
           IF seconds_until_midnight = 0 THEN DayLength - 1
           ELSE seconds_until_midnight - 1
    /\ IF daily_ttl = <<>>
       THEN UNCHANGED <<daily_count, daily_ttl, accepted, uncounted>>
       ELSE IF daily_ttl[1] > 1
       THEN /\ daily_ttl' = <<daily_ttl[1] - 1>>
            /\ UNCHANGED <<daily_count, accepted, uncounted>>
       ELSE /\ daily_count' = <<>>
            /\ daily_ttl' = <<>>
            /\ accepted' = 0
            /\ uncounted' = FALSE
    /\ UNCHANGED <<pcUsage, handler, current, notUsageVars>>

UsageNext ==
    \/ UsageReceive
    \/ UsageWithinQuota
    \/ UsageIncrementGet
    \/ UsageIncrementWrite
    \/ UsageTick

---------------------------------------------------------------------------
(* CommandHandlers.summarize, switch_model and Bot._llm_worker *)

WorkerUsers == {"ann", "ben"}

\* StrategyRegistry.available_strategies()
Providers == {"deepseek", "groq", "openai"}

\* StrategyRegistry.get_strategy("deepseek"): the provider with the key of
\* the configuration
DefaultStrategy == [provider |-> "deepseek", api_key |-> "config"]

\* _get_user_strategy (lines 123-144): the provider's strategy with the
\* user's own key when the user has set one, with the configured key otherwise
GetUserStrategy(user_id, provider, keys) ==
    [provider |-> provider,
     api_key |-> IF user_id \in keys THEN user_id ELSE "config"]

\* the job summarize puts on the queue (lines 241-250); `selected` and
\* `own_command` are no fields of the job: they note the strategy chosen for
\* it and whether its user has sent /tldr or /switch_model since
Job(chat, user_id, strategy) ==
    [type |-> "tldr", chat_id |-> chat, user_id |-> user_id,
     selected |-> strategy, own_command |-> FALSE]

OwnCommand(queue, user_id) ==
    [i \in 1..Len(queue) |->
        IF queue[i].user_id = user_id THEN [queue[i] EXCEPT !.own_command = TRUE]
        ELSE queue[i]]

WorkerInit ==
    /\ ai_strategy = DefaultStrategy
    /\ user_selected_model = [u \in WorkerUsers |-> "deepseek"]
    /\ user_api_keys = {"ann"}
    /\ llm_job_queue = <<>>
    /\ enqueued = 0
    /\ pcWorker = "dequeue"
    /\ job = <<>>
    /\ response = DefaultStrategy
    /\ answers = <<>>

WorkerIdle ==
    /\ ai_strategy = DefaultStrategy
    /\ user_selected_model = <<>>
    /\ user_api_keys = {}
    /\ llm_job_queue = <<>>
    /\ enqueued = 0
    /\ pcWorker = "off"
    /\ job = <<>>
    /\ response = DefaultStrategy
    /\ answers = <<>>

\* summarize past its quota check (lines 231-250): the strategy of the
\* requesting user is set on the one ai_service of CommandHandlers
\* (ai_service.set_strategy), with the default as fallback, and the job is
\* pushed
Summarize ==
    /\ pcWorker # "off"
    /\ enqueued < MaxJobs
    /\ \E user_id \in WorkerUsers, strategy_raises \in BOOLEAN :
        LET provider == user_selected_model[user_id]
            strategy == IF strategy_raises THEN DefaultStrategy
                        ELSE GetUserStrategy(user_id, provider, user_api_keys)
        IN  /\ ai_strategy' = strategy
            /\ llm_job_queue' = Append(OwnCommand(llm_job_queue, user_id),
                                       Job(user_id, user_id, strategy))
    /\ enqueued' = enqueued + 1
    /\ UNCHANGED <<user_selected_model, user_api_keys, pcWorker, job, response,
                   answers, notWorkerVars>>

\* switch_model (lines 286-307): an unknown name changes nothing; a known one
\* is saved for the user and, unless building the strategy raises, set on the
\* shared ai_service
SwitchModel ==
    /\ pcWorker # "off"
    /\ \E user_id \in WorkerUsers, new_model \in Providers \cup {"unknown"},
          strategy_raises \in BOOLEAN :
        IF new_model \notin Providers
        THEN UNCHANGED <<user_selected_model, ai_strategy, llm_job_queue>>
        ELSE /\ user_selected_model' =
                    [user_selected_model EXCEPT ![user_id] = new_model]
             /\ ai_strategy' =
                    IF strategy_raises THEN ai_strategy
                    ELSE GetUserStrategy(user_id, new_model, user_api_keys)
             /\ llm_job_queue' = OwnCommand(llm_job_queue, user_id)
    /\ UNCHANGED <<user_api_keys, enqueued, pcWorker, job, response, answers,
                   notWorkerVars>>

\* `except Exception` of line 241 covers lines 174-240; the dequeue of line
\* 164 and the notice of lines 243-247 stand outside every try block
WorkerCatches(at) == at = "respond"

\* lines 164-178: the job is read and the shared ai_service answers its
\* prompt at once; a read that returns None changes nothing
WorkerDequeue ==
    /\ pcWorker = "dequeue"
    /\ \E read_raises \in BOOLEAN :
        IF read_raises
        THEN /\ pcWorker' = IF WorkerCatches("dequeue") THEN "dequeue" ELSE "dead"
             /\ UNCHANGED <<llm_job_queue, job, response>>
        ELSE IF llm_job_queue = <<>>
        THEN UNCHANGED <<pcWorker, llm_job_queue, job, response>>
        ELSE /\ job' = <<Head(llm_job_queue)>>
             /\ llm_job_queue' = Tail(llm_job_queue)
             /\ response' = ai_strategy
             /\ pcWorker' = "send"
    /\ UNCHANGED <<ai_strategy, user_selected_model, user_api_keys, enqueued,
                   answers, notWorkerVars>>

\* lines 211-240: the summary is sent to the job's chat
WorkerSend ==
    /\ pcWorker = "send"
    /\ \E send_raises \in BOOLEAN :
        IF ~send_raises
        THEN /\ answers' = Append(answers, "summary")
             /\ job' = <<>>
             /\ pcWorker' = "dequeue"
        ELSE /\ pcWorker' = IF WorkerCatches("respond") THEN "notice" ELSE "dead"
             /\ UNCHANGED <<answers, job>>
    /\ UNCHANGED <<ai_strategy, user_selected_model, user_api_keys,
                   llm_job_queue, enqueued, response, notWorkerVars>>

\* lines 241-247: the error notice is sent to the job's chat
WorkerNotice ==
    /\ pcWorker = "notice"
    /\ \E send_raises \in BOOLEAN :
        IF ~send_raises
        THEN /\ answers' = Append(answers, "error")
             /\ job' = <<>>
             /\ pcWorker' = "dequeue"
        ELSE /\ pcWorker' = IF WorkerCatches("notice") THEN "dequeue" ELSE "dead"
             /\ UNCHANGED <<answers, job>>
    /\ UNCHANGED <<ai_strategy, user_selected_model, user_api_keys,
                   llm_job_queue, enqueued, response, notWorkerVars>>

WorkerNext ==
    \/ Summarize
    \/ SwitchModel
    \/ WorkerDequeue
    \/ WorkerSend
    \/ WorkerNotice

\* the worker is a task of the event loop: it runs whenever it can
WorkerFairness ==
    /\ WF_vars(WorkerDequeue)
    /\ WF_vars(WorkerSend)
    /\ WF_vars(WorkerNotice)

---------------------------------------------------------------------------
(* The bill-split conversation: split_bill_start, split_bill_photo_with_context, *)
(* split_bill_confirm and split_bill_cancel                                      *)

ConvUsers == {"ann", "ben"}
ConvChats == {"group", "private"}
Receipts == {"lunch", "dinner"}

\* ConversationHandler.END and the states of line 40
ConvStates == {"END", "RECEIPT_IMAGE", "CONFIRMATION"}

\* the value stored under 'bill_split' (lines 894-899): the receipt and the
\* assignments parsed from one photo, named here by the receipt and by the
\* chat the photo was sent in
BillSplitData(chat, receipt) == [chat |-> chat, receipt |-> receipt]

\* what a handler answered in a chat, with the value of 'bill_split' it read
ConvReply(name, user_id, chat, data) ==
    [handler |-> name, user |-> user_id, chat |-> chat, data |-> data]

\* lines 80-97: per_user=True and per_chat=True, so one state for each pair
\* of chat and user; context.user_data is one dict for each user
ConvInit ==
    /\ conversations = [u \in ConvUsers |-> [c \in ConvChats |-> "END"]]
    /\ user_data = [u \in ConvUsers |-> <<>>]
    /\ conv_reply = ConvReply("none", "ann", "group", <<>>)

ConvIdle ==
    /\ conversations = <<>>
    /\ user_data = <<>>
    /\ conv_reply = ConvReply("none", "ann", "group", <<>>)

\* the key under which split_bill_photo_with_context stores the parsed data
\* (line 894): 'bill_split' in the dict of the user, whatever the chat
StoreKey(user_id, chat) == user_id

\* split_bill_start (lines 724-769), the entry point: it runs for a pair
\* that is in no conversation
SplitBillStart ==
    /\ conversations # <<>>
    /\ \E user_id \in ConvUsers, chat \in ConvChats :
        /\ conversations[user_id][chat] = "END"
        /\ conversations' = [conversations EXCEPT ![user_id][chat] = "RECEIPT_IMAGE"]
        /\ conv_reply' = ConvReply("split_bill_start", user_id, chat, <<>>)
    /\ UNCHANGED <<user_data, notConvVars>>

\* split_bill_photo_with_context (lines 771-925): over quota ends the
\* conversation (lines 813, 826); a failed extraction or parse asks again
\* (lines 864, 884); otherwise the parsed data is stored and the
\* confirmation is asked for
SplitBillPhoto ==
    /\ conversations # <<>>
    /\ \E user_id \in ConvUsers, chat \in ConvChats,
          outcome \in {"blocked", "failed"} \cup Receipts :
        /\ conversations[user_id][chat] = "RECEIPT_IMAGE"
        /\ conv_reply' = ConvReply("split_bill_photo_with_context", user_id, chat, <<>>)
        /\ IF outcome = "blocked"
           THEN /\ conversations' = [conversations EXCEPT ![user_id][chat] = "END"]
                /\ UNCHANGED user_data
           ELSE IF outcome = "failed"
           THEN UNCHANGED <<conversations, user_data>>
           ELSE /\ user_data' = [user_data EXCEPT
                        ![StoreKey(user_id, chat)] = <<BillSplitData(chat, outcome)>>]
                /\ conversations' =
                        [conversations EXCEPT ![user_id][chat] = "CONFIRMATION"]
    /\ UNCHANGED notConvVars

\* split_bill_confirm (lines 927-997): the stored data is read (line 935);
\* without it the handler answers that no operation is active; with it the
\* split is calculated from it and it is removed (lines 976, 996)
SplitBillConfirm ==
    /\ conversations # <<>>
    /\ \E user_id \in ConvUsers, chat \in ConvChats :
        /\ conversations[user_id][chat] = "CONFIRMATION"
        /\ conv_reply' = ConvReply("split_bill_confirm", user_id, chat,
                                   user_data[StoreKey(user_id, chat)])
        /\ user_data' = [user_data EXCEPT ![StoreKey(user_id, chat)] = <<>>]
        /\ conversations' = [conversations EXCEPT ![user_id][chat] = "END"]
    /\ UNCHANGED notConvVars

\* split_bill_cancel (lines 999-1015): the fallback /cancel of every state
\* and the reply "cancel" of CONFIRMATION; the stored data is removed
SplitBillCancel ==
    /\ conversations # <<>>
    /\ \E user_id \in ConvUsers, chat \in ConvChats :
        /\ conversations[user_id][chat] # "END"
        /\ conv_reply' = ConvReply("split_bill_cancel", user_id, chat,
                                   user_data[StoreKey(user_id, chat)])
        /\ user_data' = [user_data EXCEPT ![StoreKey(user_id, chat)] = <<>>]
        /\ conversations' = [conversations EXCEPT ![user_id][chat] = "END"]
    /\ UNCHANGED notConvVars

ConvNext ==
    \/ SplitBillStart
    \/ SplitBillPhoto
    \/ SplitBillConfirm
    \/ SplitBillCancel

---------------------------------------------------------------------------
(* The specifications *)

UserIdle == user = NoUser

CoreIdle ==
    CalcIdle /\ ParseIdle /\ ExtractIdle /\ BillIdle /\ QuotaIdle /\ HookIdle /\ UserIdle

BotIdle == UsageIdle /\ WorkerIdle /\ ConvIdle

InitCalc ==
    CalcInit /\ ParseIdle /\ ExtractIdle /\ BillIdle /\ QuotaIdle /\ HookIdle /\ UserIdle /\ BotIdle
SpecCalc == InitCalc /\ [][CalcNext]_vars

InitParse ==
    ParseInit /\ CalcIdle /\ ExtractIdle /\ BillIdle /\ QuotaIdle /\ HookIdle /\ UserIdle /\ BotIdle
SpecParse == InitParse /\ [][ParseNext]_vars

InitExtract ==
    ExtractInit /\ CalcIdle /\ ParseIdle /\ BillIdle /\ QuotaIdle /\ HookIdle /\ UserIdle /\ BotIdle
SpecExtract == InitExtract /\ [][ExtractNext]_vars

InitBill ==
    BillInit /\ CalcIdle /\ ParseIdle /\ ExtractIdle /\ QuotaIdle /\ HookIdle /\ UserIdle /\ BotIdle
SpecBill == InitBill /\ [][BillNext]_vars

InitQuota ==
    QuotaInit /\ CalcIdle /\ ParseIdle /\ ExtractIdle /\ BillIdle /\ HookIdle /\ BotIdle
SpecQuota == InitQuota /\ [][QuotaNext]_vars

InitHook ==
    HookInit /\ CalcIdle /\ ParseIdle /\ ExtractIdle /\ BillIdle /\ QuotaIdle /\ BotIdle
SpecHook == InitHook /\ [][HookNext]_vars

InitUsage == UsageInit /\ CoreIdle /\ WorkerIdle /\ ConvIdle
SpecUsage == InitUsage /\ [][UsageNext]_vars

InitWorker == WorkerInit /\ CoreIdle /\ UsageIdle /\ ConvIdle
SpecWorker == InitWorker /\ [][WorkerNext]_vars
SpecWorkerFair == SpecWorker /\ WorkerFairness

InitConv == ConvInit /\ CoreIdle /\ UsageIdle /\ WorkerIdle
SpecConv == InitConv /\ [][ConvNext]_vars

---------------------------------------------------------------------------
(* Properties of calculate_split *)

CalcReturned == pcCalc = "done" /\ calc_result = "ok"
CalcFailed == pcCalc = "done" /\ calc_result \in
                {ErrSharedNoParticipants, ErrCannotDetermine, ErrNoParticipants}

\* total_amount equals the items' prices plus service charge plus tax
ConsistentInputs ==
    total_amount = AssignedTotal(assignments) + SumPrices(shared_items)
                   + OrZero(service_charge) + OrZero(tax_amount)

ResultPersons == {final_split[i].person : i \in 1..Len(final_split)}

\* C1: for every successful split of consistent inputs, the sum of the
\* rounded owes differs from total_amount by at most 0.01 * n (n cents).
C1_Conservation ==
    (CalcReturned /\ ConsistentInputs)
        => Abs(SumOwes(final_split) - total_amount) <= Cardinality(participants)

\* C2: when distribution_base is 0 and service_charge > 0, every participant's
\* owed amount includes exactly service_charge / n.
C2_ZeroBaseEqualSplit ==
    (CalcReturned /\ total_items_cost = 0 /\ OrZero(service_charge) > 0)
        => \A p \in participants :
            /\ service_charge_per_person[p] =
                 Rat(OrZero(service_charge), Cardinality(participants))
            /\ person_totals_after_service[p] =
                 RAdd(person_subtotals[p],
                      Rat(OrZero(service_charge), Cardinality(participants)))

\* C4: with no participants given, calculate_split fails and returns no
\* results when shared items exist; takes the assignment keys as participants
\* and returns results when only assignments exist; fails when nothing exists.
C4_ParticipantPreconditions ==
    (pcCalc = "done" /\ arg_participants = {})
        => /\ shared_items # <<>> => (CalcFailed /\ final_split = <<>>)
           /\ (shared_items = <<>> /\ DOMAIN assignments # {})
                => /\ calc_result = "ok"
                   /\ participants = DOMAIN assignments
                   /\ ResultPersons = DOMAIN assignments
                   /\ Len(final_split) = Cardinality(DOMAIN assignments)
           /\ (shared_items = <<>> /\ DOMAIN assignments = {})
                => (CalcFailed /\ final_split = <<>>)

C4_Witness ==
    /\ pcCalc = "done"
    /\ arg_participants = {}
    /\ shared_items = <<>>
    /\ Cardinality(DOMAIN assignments) = 2
    /\ calc_result = "ok"

\* the assigned items' total of one person, straight from the arguments
DirectCost(p) == IF p \in DOMAIN assignments THEN SumPrices(assignments[p]) ELSE 0

\* C9: once the shared items are distributed, and before any charge is
\* distributed or anything is rounded, every participant's subtotal is their
\* assigned items plus exactly (sum of shared total_price) / n, the same
\* amount for every participant, with or without assigned items.
C9_EqualSharedSplit ==
    (pcCalc = "service")
        => /\ service_charge_per_person = NoFn
           /\ tax_per_person = NoFn
           /\ final_split = <<>>
           /\ \A p \in participants :
                RSub(person_subtotals[p], RInt(DirectCost(p))) =
                    Rat(SumPrices(shared_items), Cardinality(participants))

C9_Witness ==
    /\ pcCalc = "service"
    /\ Cardinality(participants) = 2
    /\ SumPrices(shared_items) = 125
    /\ \E p \in participants : p \notin DOMAIN assignments

ScenarioA ==
    /\ assignments = [Alice |-> <<[name |-> "Burger", total_price |-> 1000]>>,
                      Bob |-> <<[name |-> "Salad", total_price |-> 800]>>]
    /\ shared_items = <<[name |-> "Drinks", total_price |-> 400]>>
    /\ arg_participants = {"Alice", "Bob"}
    /\ service_charge = <<100>>
    /\ tax_amount = <<200>>
    /\ total_amount = 2500

\* C10: Burger 10.00 to Alice, Salad 8.00 to Bob, Drinks 4.00 shared, service
\* charge 1.00, tax 2.00, total 25.00: Alice owes 13.64, Bob owes 11.36, and
\* the two add up to 25.00.
C10_ScenarioA ==
    (ScenarioA /\ pcCalc = "done")
        => /\ calc_result = "ok"
           /\ final_split = <<[person |-> "Alice", owes |-> 1364],
                              [person |-> "Bob", owes |-> 1136]>>
           /\ SumOwes(final_split) = 2500

C10_Witness == ScenarioA /\ pcCalc = "done"

---------------------------------------------------------------------------
(* Properties of parse_payment_context_with_llm *)

ParseErrors == {ErrNoResponse, ErrInvalidJson, ErrUnexpectedFormat, ErrInternal}

\* The names the model's answer refers to, in the order reconciliation visits
\* them: each person's names in order, person after person, then shared_items
RECURSIVE AssignmentClaims(_)
AssignmentClaims(entries) ==
    IF entries = <<>> THEN <<>>
    ELSE [i \in 1..Len(entries[1].names) |->
             [bucket |-> entries[1].person, name |-> entries[1].names[i]]]
         \o AssignmentClaims(Tail(entries))

Claims ==
    AssignmentClaims(parsing_result.assignments)
    \o [i \in 1..Len(parsing_result.shared_items) |->
           [bucket |-> "shared", name |-> parsing_result.shared_items[i]]]

CanonicalLower == {Lower(receipt_items[i].name) : i \in 1..Len(receipt_items)}

\* how often an item stands in a list
Count(item, list) == Cardinality({i \in 1..Len(list) : list[i] = item})

Occurrences(item) ==
    SumOver([p \in DOMAIN final_assignments |-> Count(item, final_assignments[p])],
            DOMAIN final_assignments)
    + Count(item, final_shared_items)

\* the items of a bucket: a person's list, or the shared list
BucketItems(b) ==
    IF b = "shared" THEN final_shared_items
    ELSE IF b \in DOMAIN final_assignments THEN final_assignments[b]
    ELSE <<>>

ParseReturned == pcParse = "done" /\ parse_result = "ok"

\* C3: after reconciliation, whatever names the model wrote, every canonical
\* receipt item stands at most once in all the assignment lists and the shared
\* list taken together.
C3_AtMostOneBucket ==
    ParseReturned
        => \A i \in 1..Len(receipt_items) : Occurrences(receipt_items[i]) <= 1

C3_Witness ==
    /\ ParseReturned
    /\ \E i, j \in 1..Len(Claims) :
        /\ i < j
        /\ Claims[i].name # Claims[j].name
        /\ Lower(Claims[i].name) = Lower(Claims[j].name)
        /\ Lower(Claims[i].name) \in CanonicalLower
        /\ Claims[i].bucket # Claims[j].bucket

\* the position of the first claim on the canonical name l
FirstClaim(l) ==
    CHOOSE k \in 1..Len(Claims) :
        /\ Lower(Claims[k].name) = l
        /\ \A m \in 1..(k - 1) : Lower(Claims[m].name) # l

\* C7: a canonical item that is claimed more than once goes to the bucket of
\* its first claim, in the order assignments (as given) then shared items,
\* and to no other bucket.
C7_FirstClaimWins ==
    ParseReturned
        => \A l \in CanonicalLower :
             (\E k \in 1..Len(Claims) : Lower(Claims[k].name) = l)
                => LET item == ItemLookup(receipt_items)[l]
                       first == Claims[FirstClaim(l)].bucket
                   IN  /\ Count(item, BucketItems(first)) = 1
                       /\ \A b \in ParsePersons \cup {"shared"} :
                            b # first => Count(item, BucketItems(b)) = 0

C7_Witness ==
    /\ ParseReturned
    /\ \E i, j \in 1..Len(Claims) :
        /\ Claims[i].bucket \in ParsePersons
        /\ Claims[j].bucket = "shared"
        /\ Lower(Claims[i].name) = Lower(Claims[j].name)
        /\ Lower(Claims[i].name) \in CanonicalLower
        /\ Count(ItemLookup(receipt_items)[Lower(Claims[i].name)],
                 final_shared_items) = 0

UnknownClaims == {k \in 1..Len(Claims) : Lower(Claims[k].name) \notin CanonicalLower}
ClaimedCanonical == {Lower(Claims[k].name) : k \in 1..Len(Claims)} \cap CanonicalLower

RECURSIVE TotalLen(_, _)
TotalLen(f, S) ==
    IF S = {} THEN 0
    ELSE LET x == CHOOSE y \in S : TRUE IN Len(f[x]) + TotalLen(f, S \ {x})

\* C8: a referenced name that matches no canonical name is skipped: the
\* parser does not fail, nothing enters a bucket for it, and every other name
\* of the same answer that matches a canonical item is still resolved.
C8_UnknownNameSkipped ==
    (pcParse = "done" /\ UnknownClaims # {})
        => /\ parse_result = "ok"
           /\ ~parse_raised
           /\ \A l \in ClaimedCanonical :
                \E b \in ParsePersons \cup {"shared"} :
                    Count(ItemLookup(receipt_items)[l], BucketItems(b)) = 1
           /\ processed_item_names =
                ClaimedCanonical
                \cup (IF parsing_result.participants # <<>> THEN CanonicalLower ELSE {})
           /\ TotalLen(final_assignments, DOMAIN final_assignments)
                + Len(final_shared_items) = Cardinality(processed_item_names)

C8_Witness ==
    /\ ParseReturned
    /\ \E k \in UnknownClaims, m \in 1..Len(Claims) :
        /\ k < m
        /\ Claims[k].bucket = Claims[m].bucket
        /\ Lower(Claims[m].name) \in CanonicalLower
        /\ Count(ItemLookup(receipt_items)[Lower(Claims[m].name)],
                 BucketItems(Claims[m].bucket)) = 1

\* the fatal conditions of one call, read off what the provider did
ProviderFailed == llm_reply.api = "raises"
EmptyAnswer == llm_reply.api = "returns" /\ llm_reply.content.kind \in {"none", "empty"}
InvalidJson ==
    /\ llm_reply.api = "returns"
    /\ \/ llm_reply.content.kind = "text"
       \/ llm_reply.content.kind = "json" /\ llm_reply.content.fence = "json_unclosed"
SchemaMismatch ==
    /\ llm_reply.api = "returns"
    /\ llm_reply.content.kind = "json"
    /\ llm_reply.content.fence # "json_unclosed"
    /\ \/ llm_reply.content.doc.assignments = <<>>
       \/ llm_reply.content.doc.participants = <<>>

NoMapping ==
    /\ final_assignments = NoFn
    /\ final_shared_items = <<>>
    /\ final_participants = {}

\* C6: an empty answer, an answer that is no JSON, JSON that does not fit the
\* schema and a failing provider call each end in a returned failure string,
\* with no exception leaving the function and no mapping returned.
C6_FailuresReturned ==
    pcParse = "done"
        => /\ ~parse_raised
           /\ EmptyAnswer => (parse_result = ErrNoResponse /\ NoMapping)
           /\ InvalidJson => (parse_result = ErrInvalidJson /\ NoMapping)
           /\ SchemaMismatch => (parse_result = ErrUnexpectedFormat /\ NoMapping)
           /\ ProviderFailed => (parse_result \in ParseErrors /\ NoMapping)

C6_Witness == pcParse = "done" /\ ProviderFailed /\ parse_result = ErrInvalidJson

---------------------------------------------------------------------------
(* Properties of extract_receipt_data_from_image *)

\* the outcomes of the two external calls that make the extraction fail
RecognitionFailed == recognition \in {"error", "no_pages"}
EmptyText == recognition = "pages" /\ NoUsableText(ocr_text)
StructuringUnusable ==
    /\ structuring_calls = 1
    /\ pcExtract = "done"
    /\ StructuringException(structuring_response) # ""

\* C5: a recognition error, no recognized pages, empty text, a structuring
\* answer that is no JSON and JSON that does not fit the ReceiptData schema
\* each make the function return None, and no exception leaves it.
C5_ExtractionFailuresReturnNone ==
    pcExtract = "done"
        => /\ ~extract_raised
           /\ (RecognitionFailed \/ EmptyText \/ StructuringUnusable)
                => extract_result = "None"

C5_Witness ==
    /\ pcExtract = "done"
    /\ extract_result = "None"
    /\ structuring_calls = 1
    /\ StructuringException(structuring_response) = "ValidationError"
    /\ ~structuring_response.doc.totalAmount

---------------------------------------------------------------------------
(* Properties of the final stage of calculate_split *)

\* the stated total is further from the sum of the owes than 0.01 * n
TotalMismatch ==
    Abs(SumOwes(final_split) - total_amount) > Cardinality(participants)

\* c is round(x, 2) of the amount x
IsRounded(c, x) == c \in {RoundCents(x, FALSE), RoundCents(x, TRUE)}

\* C11: calculate_split never fails because of a total mismatch: whenever
\* the participant set is non-empty it returns the result list, one entry
\* per participant, and every returned amount is the participant's rounded
\* total after tax whether or not the sum of the owes is within 0.01 * n of
\* total_amount; a deviation beyond that is logged as a warning and nothing
\* else.
C11_MismatchOnlyWarns ==
    (pcCalc = "done" /\ participants # {})
        => /\ calc_result = "ok"
           /\ ResultPersons = participants
           /\ Len(final_split) = Cardinality(participants)
           /\ \A i \in 1..Len(final_split) :
                IsRounded(final_split[i].owes,
                          person_totals_after_tax[final_split[i].person])
           /\ TotalMismatch => total_warning

C11_Witness ==
    /\ CalcReturned
    /\ TotalMismatch
    /\ total_warning
    /\ Cardinality(participants) = 2

\* C14: the list returned by a successful calculate_split is in ascending
\* order of person name, whatever the order in which the participant set
\* was iterated.
C14_SortedByPerson ==
    CalcReturned
        => \A i, j \in 1..Len(final_split) :
              i < j => PersonRank(final_split[i].person)
                         < PersonRank(final_split[j].person)

C14_Witness ==
    /\ CalcReturned
    /\ Len(final_split) = 2
    /\ final_split[1].person = "Alice"
    /\ final_split[2].person = "Bob"
    /\ arg_participants = {}

---------------------------------------------------------------------------
(* Properties of the end of the reconciliation (lines 310-339) *)

\* the receipt lines that stand in no assignment list
NotAssigned == {i \in 1..Len(receipt_items) :
                  \A p \in DOMAIN final_assignments :
                     Count(receipt_items[i], final_assignments[p]) = 0}

\* the receipt lines no assignment entry and no shared entry named
Unclaimed == {i \in 1..Len(receipt_items) :
                \A k \in 1..Len(Claims) :
                   Lower(Claims[k].name) # Lower(receipt_items[i].name)}

\* C19: after reconciliation, when the model's participants list is
\* non-empty every canonical receipt item that stands in no assignment list
\* stands in the returned shared list; when the participants list is empty
\* the items that no entry named stand in no bucket, and the parser still
\* returns a result.
C19_UnresolvedItems ==
    (pcParse = "done" /\ parsing_result # NoParsingResult)
        => /\ parse_result = "ok"
           /\ parsing_result.participants # <<>>
                => \A i \in NotAssigned :
                      Count(receipt_items[i], final_shared_items) = 1
           /\ parsing_result.participants = <<>>
                => \A i \in Unclaimed : Occurrences(receipt_items[i]) = 0

\* the same, for receipts on which no two lines have the same lowered name
C19_DistinctNames ==
    (\A i, j \in 1..Len(receipt_items) :
        i # j => Lower(receipt_items[i].name) # Lower(receipt_items[j].name))
        => C19_UnresolvedItems

\* C20: the participant set returned by parse_payment_context_with_llm is
\* the model's participants list united with the people who hold resolved
\* items, so every person who holds at least one resolved item is a
\* participant.
C20_ParticipantsUnion ==
    ParseReturned
        => /\ final_participants =
                {parsing_result.participants[i] :
                    i \in 1..Len(parsing_result.participants)}
                \cup {p \in ParsePersons : BucketItems(p) # <<>>}
           /\ \A p \in DOMAIN final_assignments : final_assignments[p] # <<>>

C20_Witness ==
    /\ ParseReturned
    /\ parsing_result.participants = <<"Alice">>
    /\ BucketItems("Bob") # <<>>
    /\ BucketItems("Alice") = <<>>
    /\ final_participants = {"Alice", "Bob"}

---------------------------------------------------------------------------
(* Properties of handle_bill_split_request and format_split_results *)

Stages == <<"extract", "parse", "calculate", "format">>

FailuresSent == {i \in 1..Len(replies) : replies[i] \in FailureReplies}
ResultsSent == {i \in 1..Len(replies) : replies[i] = "result"}

HasRun(stage) == \E i \in 1..Len(stage_log) : stage_log[i] = stage

ExtractSucceeded == HasRun("extract") /\ bill_receipt # <<>>
ExtractFailed == HasRun("extract") /\ bill_receipt = <<>>
ParseSucceeded == HasRun("parse") /\ "error" \notin DOMAIN bill_parse_result
ParseFailed == HasRun("parse") /\ "error" \in DOMAIN bill_parse_result
CalculateSucceeded == HasRun("calculate") /\ pcCalc = "done" /\ calc_result = "ok"
CalculateFailed == HasRun("calculate") /\ pcCalc = "done" /\ calc_result # "ok"
FormatSucceeded == HasRun("format") /\ final_message # NoMessage

\* C13: the stages of handle_bill_split_request run in the order extract,
\* parse context, calculate split, format; a stage has run only if every
\* earlier stage succeeded; a run that ends before the result is sent has
\* sent exactly one failure reply, as its last reply, and the reply is the
\* one of the stage that failed; the formatted result is sent at most once,
\* only after all four stages succeeded, and then no failure reply is sent.
C13_StageOrder ==
    /\ Len(stage_log) <= Len(Stages)
    /\ stage_log = SubSeq(Stages, 1, Len(stage_log))
    /\ Len(stage_log) >= 2 => ExtractSucceeded
    /\ Len(stage_log) >= 3 => ParseSucceeded
    /\ Len(stage_log) >= 4 => CalculateSucceeded
    /\ Cardinality(FailuresSent) + Cardinality(ResultsSent) <= 1
    /\ FailuresSent \cup ResultsSent \subseteq {Len(replies)}
    /\ (FailuresSent \cup ResultsSent # {}) <=> pcBill = "done"
    /\ ResultsSent # {}
         => /\ stage_log = Stages
            /\ ExtractSucceeded /\ ParseSucceeded
            /\ CalculateSucceeded /\ FormatSucceeded
    /\ ExtractFailed
         => /\ replies[Len(replies)] = "extract_failed"
            /\ stage_log = <<"extract">>
    /\ ParseFailed
         => /\ replies[Len(replies)] = "parse_failed"
            /\ stage_log = <<"extract", "parse">>
    /\ (CalculateFailed /\ pcBill # "calculating")
         => /\ replies[Len(replies)] = "calculation_failed"
            /\ stage_log = <<"extract", "parse", "calculate">>

C13_Witness ==
    /\ pcBill = "done"
    /\ stage_log = <<"extract", "parse", "calculate">>
    /\ replies = <<"processing", "analyzing", "calculating", "calculation_failed">>
    /\ calc_result = ErrNoParticipants

\* the message of a run that reached format_split_results
MessageSent == pcBill = "done" /\ ResultsSent # {}

\* the deviation of the sum of the owes from the receipt total is exactly
\* 0.01 * (number of results)
AtTolerance ==
    Abs(SumOwes(final_split) - total_amount) = Tolerance(Len(final_split))

\* C12: the message of format_split_results carries the warning exactly when
\* |sum of the owes - receipt_total| > 0.01 * (number of results), which is
\* exactly when calculate_split logged its warning for the same results;
\* with or without the warning the message has the result lines, the
\* summary, the checksum line and the disclaimer.
C12_SameWarning ==
    MessageSent
        => /\ final_message.warning
                <=> Abs(SumOwes(final_split) - total_amount) > Len(final_split)
           /\ final_message.warning <=> total_warning
           /\ final_message.result_lines = final_split
           /\ final_message.total_paid = total_amount
           /\ final_message.split_sum = SumOwes(final_split)
           /\ final_message.disclaimer

\* the same, for deviations other than exactly 0.01 * (number of results)
C12_AwayFromTolerance == (MessageSent /\ AtTolerance) \/ C12_SameWarning

\* with at most two results the two checks agree at every deviation
C12_TwoResults ==
    (MessageSent /\ Len(final_split) <= 2)
        => (final_message.warning <=> total_warning)

---------------------------------------------------------------------------
(* Properties of UsageService.within_quota *)

QuotaReturned == pcQuota = "done"

\* the row as it stood when within_quota was called: is_premium only ever
\* rewrites an expired premium row, and then the user was not premium
WasPremium == PremiumUnexpired(user, now_utc)

\* every Redis command raises
RedisDown == redis_failing = {"get_daily", "get_monthly", "sismember", "scard"}

\* a Redis read that within_quota made raised
ReadFailed ==
    ReadsMade(redis_groups, chat_id, redis_failing) \cap redis_failing # {}

OverEveryLimit ==
    /\ OrZero(redis_daily) >= DAILY_LIMIT
    /\ OrZero(redis_monthly) >= MONTHLY_LIMIT
    /\ Cardinality(redis_groups) >= GROUP_LIMIT
    /\ chat_id \notin redis_groups

\* C15 as stated: within_quota returns True for a premium user whatever the
\* daily, monthly and group counters are, and also when every Redis
\* operation fails.
C15_PremiumBypass ==
    (QuotaReturned /\ WasPremium) => quota_result = <<TRUE>>

\* C15, amended: within_quota returns True for a premium user whose row the
\* database lookup of is_premium can read, whatever the daily, monthly and
\* group counters are, and also when every Redis operation fails; when the
\* lookup raises SQLAlchemyError the user is checked like a free user.
C15_PremiumBypassWhenReadable ==
    (QuotaReturned /\ WasPremium /\ ~db_error) => quota_result = <<TRUE>>

C15_Witness ==
    /\ QuotaReturned
    /\ WasPremium
    /\ ~db_error
    /\ RedisDown
    /\ OverEveryLimit
    /\ quota_result = <<TRUE>>

\* is_premium has answered False: no row, premium not set, or expired
FreeUser == ~WasPremium

\* C16: for a non-premium user within_quota returns True exactly when daily
\* usage < 5 and monthly usage < 100 and (the chat is in the user's group
\* set or the set holds fewer than 3 groups), provided no Redis read fails;
\* if a Redis read fails it returns False.
C16_FreeUserQuota ==
    (QuotaReturned /\ FreeUser)
        => /\ ReadFailed => quota_result = <<FALSE>>
           /\ ~ReadFailed =>
                quota_result =
                  <<(/\ OrZero(redis_daily) < 5
                     /\ OrZero(redis_monthly) < 100
                     /\ (chat_id \in redis_groups \/ Cardinality(redis_groups) < 3))>>

C16_Witness ==
    /\ QuotaReturned
    /\ FreeUser
    /\ ~ReadFailed
    /\ redis_daily = <<4>>
    /\ redis_monthly = <<99>>
    /\ Cardinality(redis_groups) = 4
    /\ chat_id \in redis_groups
    /\ quota_result = <<TRUE>>

---------------------------------------------------------------------------
(* Properties of handle_stripe_webhook and handle_subscription_updated *)

\* the request carries a well-formed signature whose digest matches the
\* payload under the configured secret and whose timestamp is at most 300
\* seconds away
SignatureGenuine ==
    /\ stripe_env.secret
    /\ request.signature # <<>>
    /\ request.signature[1].format = "ok"
    /\ request.signature[1].mac
    /\ request.signature[1].age <= 300

PremiumTouched ==
    handlers_run # <<>> \/ update_calls > 0 \/ user # user_before

\* C17: handle_stripe_webhook calls an event handler, and so changes the
\* user's premium status, only after the request's signature has been
\* verified; when the verification fails it returns status 401 and no
\* handler has run, whatever the event type in the body.
C17_VerifiedBeforeHandlers ==
    /\ PremiumTouched => (hook_verified = <<TRUE>> /\ SignatureGenuine)
    /\ hook_verified = <<FALSE>>
         => /\ pcHook = "done"
            /\ hook_response = 401
            /\ ~PremiumTouched

C17_Witness ==
    /\ hook_verified = <<FALSE>>
    /\ hook_response = 401
    /\ request.json
    /\ request.event.type = "checkout.session.completed"
    /\ request.signature[1].format = "ok"
    /\ ~request.signature[1].mac
    /\ stripe_env.secret

\* handle_subscription_updated has returned for a subscription with status
\* 'active' and cancel_at_period_end true
ScheduledCancellationHandled ==
    /\ pcHook \in {"respond", "done"}
    /\ handlers_run = <<"handle_subscription_updated">>
    /\ request.event.type = "customer.subscription.updated"
    /\ request.event.status = "active"
    /\ request.event.cancel_at_period_end

PremiumKept == user = user_before /\ update_calls = 0

---------------------------------------------------------------------------
(* Properties of the charge distribution of calculate_split *)

\* x = (part / whole) * amount, said without dividing
IsShareOf(x, part, whole, amount) ==
    /\ whole # 0
    /\ RMul(x, RInt(whole)) = RMul(part, RInt(amount))

\* C21: with distribution_base > 0, each participant's service share is
\* (subtotal with the shared share / distribution_base) * service_charge and
\* each participant's tax share is (subtotal after service /
\* (distribution_base + service_charge)) * tax_amount; a charge that is
\* absent, zero or negative adds nothing to anyone.
C21_ChargeShares ==
    (CalcReturned /\ total_items_cost > 0)
        => \A p \in participants :
            /\ IF OrZero(service_charge) > 0
               THEN IsShareOf(service_charge_per_person[p], person_subtotals[p],
                              total_items_cost, OrZero(service_charge))
               ELSE service_charge_per_person[p] = RInt(0)
            /\ person_totals_after_service[p] =
                   RAdd(person_subtotals[p], service_charge_per_person[p])
            /\ IF OrZero(tax_amount) > 0
               THEN IsShareOf(tax_per_person[p], person_totals_after_service[p],
                              total_items_cost + OrZero(service_charge),
                              OrZero(tax_amount))
               ELSE tax_per_person[p] = RInt(0)
            /\ person_totals_after_tax[p] =
                   RAdd(person_totals_after_service[p], tax_per_person[p])

\* the same, for the calls whose items and service charge together are
\* more than nothing
C21_PositiveTaxBase ==
    (total_items_cost + OrZero(service_charge) > 0) => C21_ChargeShares

\* a tax that is charged although the negative service charge cancels the items
C21_TaxDropped ==
    /\ CalcReturned
    /\ total_items_cost > 0
    /\ total_items_cost + OrZero(service_charge) = 0
    /\ OrZero(tax_amount) > 0
    /\ \A p \in participants : tax_per_person[p] = RInt(0)

---------------------------------------------------------------------------
(* Properties of the two stages of extract_receipt_data_from_image *)

\* C22: the structuring call is made only after recognition has returned
\* non-empty text; when recognition fails, returns no pages or returns empty
\* or whitespace-only text, the function fails without calling the
\* structuring service.
C22_StructuringAfterText ==
    /\ structuring_calls > 0 => (recognition = "pages" /\ ocr_text = "text")
    /\ (pcExtract = "done" /\ (RecognitionFailed \/ EmptyText))
         => (structuring_calls = 0 /\ extract_result = "None")

C22_Witness ==
    /\ pcExtract = "done"
    /\ recognition = "pages"
    /\ ocr_text = "blank"
    /\ structuring_calls = 0
    /\ extract_result = "None"

\* the structuring service is called once recognition gave text
C22_Called ==
    /\ pcExtract = "validate"
    /\ ocr_text = "text"
    /\ structuring_calls = 1

\* C23: when the function returns, on success or on failure, nothing it
\* created on the local machine (the temporary image file) still exists.
C23_NoLocalResidue == pcExtract = "done" => tmp_files = 0

\* a call that returned a receipt and left its temporary file behind
C23_FileLeft ==
    /\ pcExtract = "done"
    /\ extract_result = "ReceiptData"
    /\ tmp_files = 1

---------------------------------------------------------------------------
(* Properties of the result list of calculate_split *)

\* the participant set: the one given, or the keys of assignments when none
\* was given
GivenOrInferred ==
    IF arg_participants # {} THEN arg_participants ELSE DOMAIN assignments

\* C25: a successful calculate_split returns exactly one BillSplitResult for
\* each member of the participant set (given or inferred) and no result for
\* any other name, including a name that is only a key of assignments.
C25_OneResultPerParticipant ==
    CalcReturned
        => /\ ResultPersons = GivenOrInferred
           /\ Len(final_split) = Cardinality(GivenOrInferred)

C25_Witness ==
    /\ CalcReturned
    /\ arg_participants = {"Alice"}
    /\ "Bob" \in DOMAIN assignments
    /\ assignments["Bob"] # <<>>
    /\ ResultPersons = {"Alice"}

---------------------------------------------------------------------------
(* Properties of the allocation parse_payment_context_with_llm returns *)

DistinctLoweredNames ==
    \A i, j \in 1..Len(receipt_items) :
        i # j => Lower(receipt_items[i].name) # Lower(receipt_items[j].name)

\* C26: whenever the parser returns a result whose participant set is
\* non-empty, every canonical receipt item is in exactly one bucket, so the
\* prices passed on to calculate_split add up to the sum of all receipt items.
C26_EveryItemAllocated ==
    (ParseReturned /\ final_participants # {})
        => /\ \A i \in 1..Len(receipt_items) : Occurrences(receipt_items[i]) = 1
           /\ AssignedTotal(final_assignments) + SumPrices(final_shared_items)
                = SumPrices(receipt_items)

\* the same, for answers that list a participant, on receipts of distinct names
C26_ListedParticipants ==
    (parsing_result.participants # <<>> /\ DistinctLoweredNames)
        => C26_EveryItemAllocated

\* a person holds an item, the answer lists nobody, and a line of a receipt
\* of distinct names is in no bucket
C26_ItemLeftOut ==
    /\ ParseReturned
    /\ DistinctLoweredNames
    /\ parsing_result.participants = <<>>
    /\ final_participants # {}
    /\ \E i \in 1..Len(receipt_items) : Occurrences(receipt_items[i]) = 0

---------------------------------------------------------------------------
(* Properties of the daily counter *)

\* C24: under any interleaving of increment_daily_usage calls for one user
\* with the expiry of the key, whenever the key usage:daily:<id> exists it
\* carries an expiry, so it never becomes a counter that is kept forever.
C24_DailyKeyExpires == daily_count # <<>> => daily_ttl # <<>>

\* a key without expiry comes from nothing but an INCR whose key ran out
\* after the GET of the same call
C24_OnlyFromIncrOnExpiredKey ==
    [][(daily_count' # <<>> /\ daily_ttl' = <<>> /\ daily_count = <<>>)
          => (pcUsage = "write" /\ current # <<>>)]_vars

\* the counter that is kept forever has reached the limit
C24_BlockedForever ==
    /\ daily_count = <<DAILY_LIMIT>>
    /\ daily_ttl = <<>>

\* C30: with Redis healthy, across any interleaving of quota-checked requests
\* of one user who is not premium, the number of requests accepted between
\* two resets of the daily counter never exceeds DAILY_LIMIT.
C30_DailyLimitHolds == accepted <= DAILY_LIMIT

\* the same, as long as every accepted request was counted
C30_CountedRequests == ~uncounted => C30_DailyLimitHolds

\* five counted requests between two resets
C30_LimitReached ==
    /\ ~uncounted
    /\ accepted = DAILY_LIMIT
    /\ daily_count = <<DAILY_LIMIT>>

---------------------------------------------------------------------------
(* Properties of the LLM queue and its worker *)

\* C27: a queued tldr job is answered with the strategy (provider and API
\* key) that was selected for the requesting user when the job was enqueued,
\* whatever /tldr or /switch_model commands of other users run between the
\* enqueue and the moment the worker processes the job.
C27_StrategyOfEnqueue ==
    (pcWorker = "send" /\ ~job[1].own_command) => response = job[1].selected

\* a job of a user without a key of their own, answered with the key of
\* another user
C27_ForeignKey ==
    /\ pcWorker = "send"
    /\ ~job[1].own_command
    /\ job[1].selected.api_key = "config"
    /\ response.api_key \in WorkerUsers \ {job[1].user_id}

\* the same, for the jobs the worker takes while the strategy set for them
\* is still the one of the ai_service
C27_NoCommandBetween ==
    [][(pcWorker = "dequeue" /\ pcWorker' = "send" /\ ai_strategy = job'[1].selected)
          => response' = job'[1].selected]_vars

\* C28: under weak fairness of the worker, every job enqueued on the LLM
\* queue is eventually dequeued and answered in its chat with a summary or an
\* error notice; a failure while handling one job never stops the worker from
\* handling the jobs that follow.
C28_EveryJobAnswered ==
    \A k \in 1..MaxJobs : (enqueued >= k) ~> (Len(answers) >= k)

\* the same, unless the worker has come to its end
C28_WhileWorkerRuns ==
    \A k \in 1..MaxJobs : (enqueued >= k) ~> (Len(answers) >= k \/ pcWorker = "dead")

\* the worker has ended with a job on the queue
C28_WorkerDead ==
    /\ pcWorker = "dead"
    /\ llm_job_queue # <<>>

---------------------------------------------------------------------------
(* Properties of the bill-split conversation *)

\* C29: when a user confirms in a bill-split conversation, the split is
\* calculated from the receipt and assignments parsed from the photo sent in
\* that same conversation (same chat), under any interleaving with another
\* bill-split conversation the same user runs in a different chat; one
\* conversation's confirm or cancel never consumes or deletes the other's
\* pending data.
C29_OwnDataOnly ==
    /\ conv_reply.handler = "split_bill_confirm"
        => /\ conv_reply.data # <<>>
           /\ conv_reply.data[1].chat = conv_reply.chat
    /\ conv_reply.handler = "split_bill_cancel"
        => \/ conv_reply.data = <<>>
           \/ conv_reply.data[1].chat = conv_reply.chat

\* a confirm in one chat has calculated from the photo of the other chat,
\* and the conversation of that other chat still waits for its confirm
C29_OtherChatsData ==
    /\ conv_reply.handler = "split_bill_confirm"
    /\ conv_reply.data # <<>>
    /\ conv_reply.data[1].chat # conv_reply.chat
    /\ conversations[conv_reply.user][conv_reply.data[1].chat] = "CONFIRMATION"

\* a confirm in a conversation that got as far as the confirmation finds no
\* data at all
C29_NoDataLeft ==
    /\ conv_reply.handler = "split_bill_confirm"
    /\ conv_reply.data = <<>>

\* the data of one user is never touched by the conversations of another:
\* whatever a user has in store was parsed from the photo of a conversation
\* of theirs that still waits for its confirm
C29_UsersApart ==
    \A u \in ConvUsers :
        user_data[u] # <<>>
            => conversations[u][user_data[u][1].chat] = "CONFIRMATION"

====
